---- MODULE Spec2Model ----
(***************************************************************************)
(* Node provisioning protocol (ContaboNodeProvisioner) and cluster         *)
(* administration (AbstractKubernetesAdministrator) of ha-lean-cluster.    *)
(*                                                                         *)
(* The Instance Directory (the cloud provider) is the shared state: every  *)
(* provider call is one atomic step, and a caller is suspended between two *)
(* awaited provider calls, where other callers may run.                    *)
(*                                                                         *)
(* Spec: calls to the provisioner, one after the other (the unawaited      *)
(* writes of a call outlive it).  SpecRace: the same calls, overlapping.   *)
(* SpecAdmin: removeNode and deprovisionNode on existing clusters.  The    *)
(* other specifications add one thing each to these: a pool in any state,  *)
(* either mode of provisionNode, initCluster, getNode, the pages of        *)
(* listNodes, overlapping administrator calls.  SpecAdd, SpecDelete,       *)
(* SpecHealth, SpecBackup, SpecRestore, SpecUpgrade: the calls of one      *)
(* operation of the administrator each, one after the other.  Provider     *)
(* calls succeed unless the code itself throws; an ssh command may fail.   *)
(* SpecTagRace: overlapping provisioner calls on existing clusters.        *)
(*                                                                         *)
(* SpecProvider, SpecStartStop: the calls of the provider that wait for an *)
(* instance (waitFor), where the provider may answer 423 or an error and   *)
(* time is the time slept.  SpecSSH: executeSSH and retry, where what the  *)
(* host does is up to the host.  SpecProviderFair and SpecSSH state the    *)
(* fairness of the caller's own steps.                                     *)
(*                                                                         *)
(* Strings are sequences of symbols.  A symbol is one character of a       *)
(* cluster id or of an instance id, or one literal piece of a template     *)
(* ("cluster=", "error=", " ").  String.includes is a sub-sequence search. *)
(***************************************************************************)
EXTENDS Integers, Sequences, FiniteSets, TLC

\* ---- bounds ------------------------------------------------------------
NumInstances == 3
NumCallers == 2
MaxPageSize == 4
MaxLines == 3

Instances == 1..NumInstances
Callers == 1..NumCallers
\* cluster ids the callers pass; one is a prefix of the other
ClusterIds == {<<"a">>, <<"a", "b">>}
NoInstance == 0
NoCluster == <<>>

\* ---- strings -----------------------------------------------------------
Digits == <<"1", "2", "3", "4", "5">>
String(instanceId) == <<Digits[instanceId]>>
Addresses == <<"ip1", "ip2", "ip3", "ip4", "ip5">>
publicIp(instanceId) == Addresses[instanceId]

includes(s, t) ==
  \E k \in 0..(Len(s) - Len(t)) : SubSeq(s, k + 1, k + Len(t)) = t

\* `${instanceId} cluster=${options.clusterId}`
displayNameOf(instanceId, c) == String(instanceId) \o <<" ", "cluster=">> \o c
\* `cluster=${options.clusterId}`
tagName(c) == <<"cluster=">> \o c
\* [`${instanceId} error=${type}`, peerNode && `peer=${publicIp}`].filter(Boolean).join(" ")
errorDisplayName(instanceId, type, peerNode) ==
  String(instanceId) \o <<" ", "error=", type>> \o
    (IF peerNode # NoInstance THEN <<" ", "peer=", publicIp(peerNode)>> ELSE <<>>)
\* `${instanceId} status=cancelled`
cancelledDisplayName(instanceId) == String(instanceId) \o <<" ", "status=cancelled">>
\* `${instanceId} error=${instance.errorMessage}`
erroredDisplayName(instanceId) == String(instanceId) \o <<" ", "error=", "msg">>

\* ---- state -------------------------------------------------------------
VARIABLES
  \* Instance Directory
  displayName,      \* instance -> display name
  status,           \* instance -> "running" | "stopped" | "error"
  productId,        \* instance -> product
  cancelDate,       \* instance -> TRUE when a cancel date is set
  errorMessage,     \* instance -> TRUE when an error message is set
  sshKeys,          \* instance -> cluster whose ssh key is installed, or NoCluster
  tags,             \* names (cluster ids) of the existing cluster=<id> tags
  tagAssignments,   \* set of <<cluster id, instance>>
  secrets,          \* cluster ids that have an ssh key secret
  inflight,         \* display-name writes issued without await, not yet applied
  \* callers
  op,               \* caller -> operation in progress
  mode,             \* caller -> options.mode of provisionNode
  paging,           \* caller -> the paginateFilter generator of a listNodes call:
                    \*   pageSize, page: the loop's constants and counter
                    \*   itemsPage: the items of the fetched page still to examine
                    \*   requests: the pages requested so far, with their lengths
  pc,               \* caller -> position in the operation
  clusterId,        \* caller -> options.clusterId
  nodeId,           \* caller -> options.nodeId (deprovisionNode, removeNode)
  retry,            \* caller -> loop counter of provisionNode; `retries` of retry
  instance,         \* caller -> local `instance` of ensureInstance / provisionNode
  checked,          \* caller -> what the checks of the successful attempt observed
  error,            \* caller -> error the call ended with
  tagLen,           \* caller -> tagAssignments.length read by unassignTag
  log,              \* caller -> the ssh commands the administrator call in progress
                    \*           has run with success, in order: <<command, node>>
  tasks,            \* caller -> node -> the async function the call runs for the node
                    \*           (deleteCluster, restoreEtcd): its position and locals
  etcdHealth,       \* caller -> locals of checkEtcdHealth: healthOutput and the status
  timer,            \* caller -> the clock of a provider call that waits: performance.now()
                    \*           since the call began and `start` of the waitFor in progress
                    \*           and of the one around it, in polling intervals
  controlPlaneNode, \* caller -> local `controlPlaneNode` of removeNode
  \* the Kubernetes clusters, as kubectl and kubeadm on the nodes see them
  kubeNode,         \* instance -> cluster whose API holds the node object, or NoCluster
  kubeRoles,        \* instance -> role labels of the node object
  drained,          \* instance -> the node object is cordoned and drained
  adminConf,        \* instance -> cluster whose /etc/kubernetes/admin.conf the node holds
  \* history
  held,             \* <<cluster, instance>> returned by provisionNode, not deprovisioned since
  deprovisioned,    \* <<cluster, instance>> of the completed deprovisionNode calls that
                    \* released the instance
  hist              \* caller -> facts about the caller's calls that the properties refer to:
                    \*   rivals:   callers that held the same candidate, found unclaimed,
                    \*             while this caller held it unwritten
                    \*   released: the reset of the deprovisionNode call cleared the
                    \*             marker of its cluster
                    \*   repeated: the deprovisionNode call repeats a completed
                    \*             deprovisionNode call that released the node
                    \*   sole:     the removeNode call began on the only control-plane node
                    \*   initCluster: the provisionNode call is the one initCluster makes

providerVars == <<displayName, status, productId, cancelDate, errorMessage, sshKeys,
                  tags, tagAssignments, secrets, inflight>>
adminLocals == <<log, tasks, etcdHealth, timer>>
callerVars == <<op, mode, paging, adminLocals, pc, clusterId, nodeId, retry, instance, checked, error, tagLen,
                controlPlaneNode>>
kubeVars == <<kubeNode, kubeRoles, drained, adminConf>>
historyVars == <<held, deprovisioned, hist>>
vars == <<providerVars, callerVars, historyVars, kubeVars>>

NoChecks == [ping |-> FALSE, ssh |-> FALSE, peerNodes |-> {}, unreachable |-> {}]
NoLocal == [instanceId |-> NoInstance, displayName |-> <<>>]
NoPaging == [pageSize |-> 0, page |-> 0, itemsPage |-> <<>>, requests |-> <<>>]
NoTask == [pc |-> "none", tagLen |-> 0]
NoTasks == [i \in Instances |-> NoTask]
NoTimer == [now |-> 0, start |-> 0, outer |-> 0]
NoHealth == [healthOutput |-> <<>>, healthy |-> FALSE, healthyEndpoints |-> 0,
             totalEndpoints |-> 0]
NoHist == [rivals |-> {}, released |-> FALSE, repeated |-> FALSE, sole |-> FALSE,
           initCluster |-> FALSE,
           addNode |-> "none", upgradeCluster |-> FALSE]

InitCallers ==
  /\ op = [p \in Callers |-> "none"]
  /\ mode = [p \in Callers |-> "none"]
  /\ paging = [p \in Callers |-> NoPaging]
  /\ log = [p \in Callers |-> <<>>]
  /\ tasks = [p \in Callers |-> NoTasks]
  /\ etcdHealth = [p \in Callers |-> NoHealth]
  /\ timer = [p \in Callers |-> NoTimer]
  /\ pc = [p \in Callers |-> "idle"]
  /\ clusterId = [p \in Callers |-> NoCluster]
  /\ nodeId = [p \in Callers |-> NoInstance]
  /\ retry = [p \in Callers |-> 0]
  /\ instance = [p \in Callers |-> NoLocal]
  /\ checked = [p \in Callers |-> NoChecks]
  /\ error = [p \in Callers |-> "none"]
  /\ tagLen = [p \in Callers |-> 0]
  /\ controlPlaneNode = [p \in Callers |-> NoInstance]
  /\ held = {}
  /\ deprovisioned = {}
  /\ hist = [p \in Callers |-> NoHist]

\* a pool of unclaimed, stopped instances, of the given products
InitPool(products) ==
  /\ displayName = [i \in Instances |-> <<>>]
  /\ status = [i \in Instances |-> "stopped"]
  /\ productId = products
  /\ cancelDate = [i \in Instances |-> FALSE]
  /\ errorMessage = [i \in Instances |-> FALSE]
  /\ sshKeys = [i \in Instances |-> NoCluster]
  /\ tags = {}
  /\ tagAssignments = {}
  /\ secrets = {}
  /\ inflight = {}
  /\ kubeNode = [i \in Instances |-> NoCluster]
  /\ kubeRoles = [i \in Instances |-> {}]
  /\ drained = [i \in Instances |-> FALSE]
  /\ adminConf = [i \in Instances |-> NoCluster]
  /\ InitCallers

\* every instance of the pool is of the product provisionNode asks for
Init == InitPool([i \in Instances |-> "V78"])

\* the last instance of the pool is of another product
mixedPool == [i \in Instances |-> IF i = NumInstances THEN "V45" ELSE "V78"]

\* ---- pure helpers of the provisioner -------------------------------------
\* productId: "V78" requested by provisionNode
RequestedProduct == "V78"
\* mode: "auto" | "manual" of ProvisionNodeOptions
Modes == {"auto", "manual"}
\* provisioning: "manual" passed by provisionNode to ensureInstance, whatever
\* options.mode is
Provisioning == "manual"
\* for (let retry = 0; retry < 3; retry++)
RetryLimit == 3
\* the loop condition off by one
continueLoopInclusive(r) == r <= RetryLimit
continueLoop(r) == r < RetryLimit

\* instance.displayName.includes(`cluster=${options.clusterId}`)
isClusterNode(dn, c) == includes(dn, tagName(c))

\* listNodes: ids of the instances whose display name carries the marker,
\* paged through with the default page size (one page holds the whole pool)
listNodes(dn, c) == {i \in Instances : isClusterNode(dn[i], c)}

\* condition callback of paginateFind in ensureInstance for one listed item:
\* whether the item is taken, and the directory after the callback's own writes
condition(i, c, dn, keys, st) ==
  IF dn[i] # <<>>
    THEN [ok |-> FALSE, dn |-> dn, keys |-> keys, st |-> st]
  ELSE IF productId[i] # RequestedProduct
    THEN [ok |-> FALSE, dn |-> dn, keys |-> keys, st |-> st]
  ELSE IF cancelDate[i]
    THEN [ok |-> FALSE, dn |-> [dn EXCEPT ![i] = cancelledDisplayName(i)],
          keys |-> keys, st |-> st]
  ELSE IF errorMessage[i]
    THEN [ok |-> FALSE, dn |-> [dn EXCEPT ![i] = erroredDisplayName(i)],
          keys |-> keys, st |-> st]
  ELSE LET reinstall == keys[i] # c
       IN [ok |-> status[i] \in {"stopped", "running"},
           dn |-> dn,
           keys |-> IF reinstall THEN [keys EXCEPT ![i] = c] ELSE keys,
           st |-> IF reinstall THEN [st EXCEPT ![i] = "running"] ELSE st]

\* paginateFind over the listed instances, in listing order, from item i on
RECURSIVE paginateFind(_, _, _, _, _)
paginateFind(i, c, dn, keys, st) ==
  IF i > NumInstances
    THEN [found |-> NoInstance, dn |-> dn, keys |-> keys, st |-> st]
    ELSE LET r == condition(i, c, dn, keys, st)
         IN IF r.ok
              THEN [found |-> i, dn |-> r.dn, keys |-> r.keys, st |-> r.st]
              ELSE paginateFind(i + 1, c, r.dn, r.keys, r.st)

\* checkNodeProvisioning without the peer checks
checkNodeProvisioningNoPeers(ping, ssh, peerNodes, unreachable) ==
  IF ~ping THEN [type |-> "ping_node", peerNode |-> NoInstance]
  ELSE IF ~ssh THEN [type |-> "ssh_node", peerNode |-> NoInstance]
  ELSE [type |-> "ok", peerNode |-> NoInstance]

\* checkNodeProvisioning: the checks run in order and the first failure is thrown
checkNodeProvisioning(ping, ssh, peerNodes, unreachable) ==
  IF ~ping THEN [type |-> "ping_node", peerNode |-> NoInstance]
  ELSE IF ~ssh THEN [type |-> "ssh_node", peerNode |-> NoInstance]
  ELSE IF peerNodes \cap unreachable # {}
    THEN [type |-> "ssh_ping_peer_public",
          peerNode |-> CHOOSE n \in peerNodes \cap unreachable :
                         \A m \in peerNodes \cap unreachable : n <= m]
  ELSE [type |-> "ok", peerNode |-> NoInstance]

\* where ensureInstance goes after re-reading the instance it wrote to: the
\* display name read back is not compared with the one written
afterGetInstance(written, readBack) == "assignTag"

\* ---- provisionNode -------------------------------------------------------
Finished(p) ==
  /\ pc[p] \in {"idle", "done", "failed"}
  \* initCluster goes on after its provisionNode call returned
  /\ ~(op[p] = "provisionNode" /\ pc[p] = "done" /\ hist[p].initCluster)
  \* and so does addNode
  /\ ~(op[p] = "provisionNode" /\ pc[p] = "done" /\ hist[p].addNode # "none")

\* every caller makes one call; the callers are numbered in the order in which
\* they call
NextCaller(p) ==
  /\ pc[p] = "idle"
  /\ \A q \in Callers : q < p => pc[q] # "idle"

\* the arguments of a call go with its frame: when it threw, and when it
\* returned nothing
Arguments(p) ==
  LET gone == pc'[p] = "failed" \/ (pc'[p] = "done" /\ op[p] # "provisionNode")
  IN /\ clusterId' = IF gone THEN [clusterId EXCEPT ![p] = NoCluster] ELSE clusterId
     /\ nodeId' = IF gone THEN [nodeId EXCEPT ![p] = NoInstance] ELSE nodeId

\* a call that threw: its locals are gone, the error is what the caller sees
Throw(p, e) ==
  /\ pc' = [pc EXCEPT ![p] = "failed"]
  /\ error' = [error EXCEPT ![p] = e]
  /\ retry' = [retry EXCEPT ![p] = 0]
  /\ instance' = [instance EXCEPT ![p] = NoLocal]
  /\ checked' = [checked EXCEPT ![p] = NoChecks]
  /\ tagLen' = [tagLen EXCEPT ![p] = 0]

StartProvisionNode(p, c, m) ==
  /\ NextCaller(p)
  /\ op' = [op EXCEPT ![p] = "provisionNode"]
  /\ mode' = [mode EXCEPT ![p] = m]
  /\ pc' = [pc EXCEPT ![p] = "ensureInstance"]
  /\ clusterId' = [clusterId EXCEPT ![p] = c]
  /\ UNCHANGED <<providerVars, kubeVars, nodeId, retry, paging, adminLocals, instance, checked, error, tagLen,
                 controlPlaneNode, historyVars>>

\* the other provisionNode calls that found instance i unclaimed and have not
\* written their display name to it yet
sameCandidate(p, i) ==
  {q \in Callers \ {p} : /\ op[q] = "provisionNode" /\ pc[q] = "setDisplayName"
                          /\ instance[q].instanceId = i}

\* one attempt begins: ensureSshKey, then ensureInstance finds an available
\* instance (or fails when provisioning is manual)
EnsureInstanceFind(p) ==
  /\ op[p] = "provisionNode" /\ pc[p] = "ensureInstance"
  /\ secrets' = secrets \cup {clusterId[p]}
  /\ LET r == paginateFind(1, clusterId[p], displayName, sshKeys, status)
     IN /\ displayName' = r.dn
        /\ sshKeys' = r.keys
        /\ status' = r.st
        /\ IF r.found # NoInstance
             THEN /\ instance' = [instance EXCEPT ![p] =
                        [instanceId |-> r.found, displayName |-> displayName[r.found]]]
                  /\ pc' = [pc EXCEPT ![p] = "setDisplayName"]
                  /\ hist' = [q \in Callers |->
                       IF q = p
                         THEN [hist[p] EXCEPT !.rivals = @ \cup sameCandidate(p, r.found)]
                       ELSE IF q \in sameCandidate(p, r.found)
                         THEN [hist[q] EXCEPT !.rivals = @ \cup {p}]
                       ELSE hist[q]]
                  /\ UNCHANGED <<error, retry, checked, tagLen>>
             ELSE /\ Provisioning # "auto"
                  /\ Throw(p, "no_capacity")
                  /\ UNCHANGED hist
  /\ UNCHANGED <<productId, cancelDate, errorMessage, tags, tagAssignments,
                 inflight, kubeVars, controlPlaneNode, op, mode, paging, adminLocals, held, deprovisioned>>
  /\ Arguments(p)

\* ensureInstance: setInstanceDisplayName(instance.instanceId, options.displayName(...))
EnsureInstanceClaim(p) ==
  /\ op[p] = "provisionNode" /\ pc[p] = "setDisplayName"
  /\ displayName' = [displayName EXCEPT ![instance[p].instanceId] =
                       displayNameOf(instance[p].instanceId, clusterId[p])]
  /\ pc' = [pc EXCEPT ![p] = "getInstance"]
  /\ UNCHANGED <<status, productId, cancelDate, errorMessage, sshKeys, tags,
                 tagAssignments, secrets, inflight,
                 kubeVars, controlPlaneNode, op, mode, paging, adminLocals, clusterId, nodeId, retry, instance, checked, error, tagLen,
                 historyVars>>

\* ensureInstance: instance = getInstance(...); startInstance when it is not
\* running, and getInstance again
EnsureInstanceGet(p) ==
  /\ op[p] = "provisionNode" /\ pc[p] = "getInstance"
  /\ LET i == instance[p].instanceId
     IN /\ instance' = [instance EXCEPT ![p].displayName = displayName[i]]
        /\ status' = [status EXCEPT ![i] = "running"]
        /\ pc' = [pc EXCEPT ![p] =
             afterGetInstance(displayNameOf(i, clusterId[p]), displayName[i])]
  /\ UNCHANGED <<displayName, productId, cancelDate, errorMessage, sshKeys, tags,
                 tagAssignments, secrets, inflight,
                 kubeVars, controlPlaneNode, op, mode, paging, adminLocals, clusterId, nodeId, retry, checked, error, tagLen, historyVars>>

\* assignTag: ensureTag, listTagAssignments, throw when the instance already
\* holds the assignment, createTagAssignment otherwise
AssignTag(p) ==
  /\ op[p] = "provisionNode" /\ pc[p] = "assignTag"
  /\ tags' = tags \cup {clusterId[p]}
  /\ LET a == <<clusterId[p], instance[p].instanceId>>
     IN IF a \in tagAssignments
          THEN /\ Throw(p, "tag_already_assigned")
               /\ UNCHANGED tagAssignments
          ELSE /\ tagAssignments' = tagAssignments \cup {a}
               /\ pc' = [pc EXCEPT ![p] = "checkNodeProvisioning"]
               /\ UNCHANGED <<error, retry, instance, checked, tagLen>>
  /\ UNCHANGED <<displayName, status, productId, cancelDate, errorMessage, sshKeys,
                 secrets, inflight, kubeVars, controlPlaneNode, op, mode, paging, adminLocals, historyVars>>
  /\ Arguments(p)

\* list the peers and run checkNodeProvisioning.  All checks passed: the final
\* ssh command (killall apt-get) either succeeds and the node is returned, or
\* fails and provisionNode throws.  A check failed: the failure display name is
\* issued without await and resetInstance follows.
CheckNode(p) ==
  /\ op[p] = "provisionNode" /\ pc[p] = "checkNodeProvisioning"
  /\ LET i == instance[p].instanceId
         peerNodes == listNodes(displayName, clusterId[p]) \ {i}
     IN \E ping \in BOOLEAN, ssh \in BOOLEAN, unreachable \in SUBSET peerNodes :
          LET report == checkNodeProvisioning(ping, ssh, peerNodes, unreachable)
          IN IF report.type = "ok"
               THEN /\ \/ /\ pc' = [pc EXCEPT ![p] = "done"]
                          /\ checked' = [checked EXCEPT ![p] =
                               [ping |-> ping, ssh |-> ssh, peerNodes |-> peerNodes,
                                unreachable |-> unreachable]]
                          /\ instance' = [instance EXCEPT ![p].displayName = <<>>]
                          /\ retry' = [retry EXCEPT ![p] = 0]
                          /\ held' = held \cup {<<clusterId[p], i>>}
                          /\ UNCHANGED <<error, tagLen>>
                       \/ /\ Throw(p, "ssh")
                          /\ UNCHANGED held
                    /\ UNCHANGED inflight
               ELSE /\ inflight' = inflight \cup
                         {[instanceId |-> i,
                           displayName |-> errorDisplayName(i, report.type, report.peerNode)]}
                    /\ pc' = [pc EXCEPT ![p] = "resetInstance"]
                    /\ UNCHANGED <<checked, error, held, retry, instance, tagLen>>
  /\ UNCHANGED <<displayName, status, productId, cancelDate, errorMessage, sshKeys,
                 tags, tagAssignments, secrets,
                 kubeVars, controlPlaneNode, op, mode, paging, adminLocals, hist, deprovisioned>>
  /\ Arguments(p)

\* a display-name write that was issued without await reaches the directory
LandDisplayNameWrite ==
  \E w \in inflight :
    /\ displayName' = [displayName EXCEPT ![w.instanceId] = w.displayName]
    /\ inflight' = inflight \ {w}
    /\ UNCHANGED <<status, productId, cancelDate, errorMessage, sshKeys, tags,
                   tagAssignments, secrets, callerVars, historyVars, kubeVars>>

\* ---- resetInstance (provisionNode's failure path and deprovisionNode) ------
resetTarget(p) == IF op[p] = "provisionNode" THEN instance[p].instanceId ELSE nodeId[p]

\* a reset that leaves the display name as it is
resetDisplayNameKept(instanceId) == displayName[instanceId]
\* the display name resetInstance writes: setInstanceDisplayName(instanceId, "")
resetDisplayName(instanceId) == <<>>

\* resetInstance: setInstanceDisplayName(instanceId, "")
ResetInstanceClear(p) ==
  /\ pc[p] = "resetInstance"
  /\ displayName' = [displayName EXCEPT ![resetTarget(p)] = resetDisplayName(resetTarget(p))]
  /\ held' = IF op[p] = "provisionNode" THEN held
             ELSE held \ {<<clusterId[p], nodeId[p]>>}
  /\ hist' = IF op[p] = "provisionNode" THEN hist
             ELSE [hist EXCEPT ![p].released =
                    displayName[nodeId[p]] = displayNameOf(nodeId[p], clusterId[p])]
  /\ pc' = [pc EXCEPT ![p] = "stopInstance"]
  /\ UNCHANGED <<status, productId, cancelDate, errorMessage, sshKeys, tags,
                 tagAssignments, secrets, inflight,
                 kubeVars, controlPlaneNode, op, mode, paging, adminLocals, clusterId, nodeId, retry, instance, checked,
                 error, tagLen, deprovisioned>>

\* resetInstance: stopInstance(instanceId).  provisionNode then continues its
\* loop: the next attempt, or "failed after 3 retries"; deprovisionNode returns
ResetInstanceStop(p) ==
  /\ pc[p] = "stopInstance"
  /\ status' = [status EXCEPT ![resetTarget(p)] = "stopped"]
  /\ IF op[p] = "provisionNode"
       THEN IF continueLoop(retry[p] + 1)
              THEN /\ retry' = [retry EXCEPT ![p] = retry[p] + 1]
                   /\ pc' = [pc EXCEPT ![p] = "ensureInstance"]
                   /\ UNCHANGED <<error, instance, checked, tagLen>>
              ELSE Throw(p, "retries")
       ELSE /\ pc' = [pc EXCEPT ![p] = "done"]
            /\ tagLen' = [tagLen EXCEPT ![p] = 0]
            /\ UNCHANGED <<retry, error, instance, checked>>
  /\ deprovisioned' =
       IF op[p] = "deprovisionNode" /\ hist[p].released
         THEN deprovisioned \cup {<<clusterId[p], nodeId[p]>>}
         ELSE deprovisioned
  /\ UNCHANGED <<displayName, productId, cancelDate, errorMessage, sshKeys, tags,
                 tagAssignments, secrets, inflight,
                 kubeVars, controlPlaneNode, op, mode, paging, adminLocals, held, hist>>
  /\ Arguments(p)

\* ---- deprovisionNode -----------------------------------------------------
\* unassignTag(...).catch(console.warn): where deprovisionNode goes on after
\* unassignTag threw
\* unassignTag's error not caught
afterUnassignTagErrorRethrown == "failed"
afterUnassignTagError == "resetInstance"

StartDeprovisionNode(p, c, n) ==
  /\ NextCaller(p)
  /\ op' = [op EXCEPT ![p] = "deprovisionNode"]
  /\ pc' = [pc EXCEPT ![p] = "unassignTag"]
  /\ clusterId' = [clusterId EXCEPT ![p] = c]
  /\ nodeId' = [nodeId EXCEPT ![p] = n]
  /\ hist' = [hist EXCEPT ![p].repeated = <<c, n>> \in deprovisioned]
  /\ UNCHANGED <<providerVars, kubeVars, mode, paging, adminLocals, retry, instance, checked, error, tagLen,
                 controlPlaneNode, held, deprovisioned>>

\* unassignTag: getTagByName, listTagAssignments, throw when the list is empty
UnassignTag(p) ==
  /\ op[p] \in {"deprovisionNode", "removeNode"} /\ pc[p] = "unassignTag"
  /\ LET assigned == {a \in tagAssignments : a[1] = clusterId[p]}
     IN IF clusterId[p] \notin tags \/ assigned = {}
          THEN /\ pc' = [pc EXCEPT ![p] = afterUnassignTagError]
               /\ error' = [error EXCEPT ![p] =
                    IF afterUnassignTagError = "failed" THEN "unassign_tag" ELSE error[p]]
               /\ UNCHANGED tagLen
          ELSE /\ pc' = [pc EXCEPT ![p] = "deleteTagAssignment"]
               /\ tagLen' = [tagLen EXCEPT ![p] = Cardinality(assigned)]
               /\ UNCHANGED error
  /\ UNCHANGED <<providerVars, kubeVars, controlPlaneNode, op, mode, paging, adminLocals, clusterId, nodeId, retry, instance, checked,
                 historyVars>>

\* unassignTag: provider.deleteTagAssignment (the provider rejects the deletion
\* of an assignment that does not exist), then on to deleteTag when the list
\* had exactly one item
DeleteTagAssignment(p) ==
  /\ op[p] \in {"deprovisionNode", "removeNode"} /\ pc[p] = "deleteTagAssignment"
  /\ LET a == <<clusterId[p], nodeId[p]>>
     IN IF a \in tagAssignments
          THEN /\ tagAssignments' = tagAssignments \ {a}
               /\ pc' = [pc EXCEPT ![p] =
                    IF tagLen[p] = 1 THEN "deleteTag" ELSE "resetInstance"]
               /\ UNCHANGED error
          ELSE /\ pc' = [pc EXCEPT ![p] = afterUnassignTagError]
               /\ error' = [error EXCEPT ![p] =
                    IF afterUnassignTagError = "failed" THEN "unassign_tag" ELSE error[p]]
               /\ UNCHANGED tagAssignments
  /\ UNCHANGED <<displayName, status, productId, cancelDate, errorMessage, sshKeys,
                 tags, secrets, inflight,
                 kubeVars, controlPlaneNode, op, mode, paging, adminLocals, clusterId, nodeId, retry, instance, checked, tagLen, historyVars>>

\* unassignTag: provider.deleteTag(tag.tagId)
DeleteTag(p) ==
  /\ op[p] \in {"deprovisionNode", "removeNode"} /\ pc[p] = "deleteTag"
  /\ tags' = tags \ {clusterId[p]}
  /\ pc' = [pc EXCEPT ![p] = "resetInstance"]
  /\ UNCHANGED <<displayName, status, productId, cancelDate, errorMessage, sshKeys,
                 tagAssignments, secrets, inflight,
                 kubeVars, controlPlaneNode, op, mode, paging, adminLocals, clusterId, nodeId, retry, instance, checked, error, tagLen,
                 historyVars>>

\* ---- specifications of the provisioner --------------------------------------
\* no other call is in progress
Sequenced(p) == \A q \in Callers \ {p} : Finished(q)

ProvisionerStep ==
  \/ \E p \in Callers : EnsureInstanceFind(p)
  \/ \E p \in Callers : EnsureInstanceClaim(p)
  \/ \E p \in Callers : EnsureInstanceGet(p)
  \/ \E p \in Callers : AssignTag(p)
  \/ \E p \in Callers : CheckNode(p)
  \/ LandDisplayNameWrite
  \/ \E p \in Callers : ResetInstanceClear(p)
  \/ \E p \in Callers : ResetInstanceStop(p)
  \/ \E p \in Callers : UnassignTag(p)
  \/ \E p \in Callers : DeleteTagAssignment(p)
  \/ \E p \in Callers : DeleteTag(p)

\* the calls follow one another; the unawaited writes of a call run
\* concurrently with what follows them
Next ==
  \/ \E p \in Callers, c \in ClusterIds :
       Sequenced(p) /\ StartProvisionNode(p, c, "manual")
  \/ \E p \in Callers, c \in ClusterIds, n \in Instances :
       Sequenced(p) /\ StartDeprovisionNode(p, c, n)
  \/ ProvisionerStep

Spec == Init /\ [][Next]_vars

\* the pool as the provider account may hold it: every instance unclaimed, and
\* each one available, cancelled, carrying an error message, or in a status
\* that is neither stopped nor running
PoolStates == {"available", "cancelled", "errored", "unusable"}

InitAnyPool ==
  \E state \in [Instances -> PoolStates] :
    /\ displayName = [i \in Instances |-> <<>>]
    /\ status = [i \in Instances |-> IF state[i] = "unusable" THEN "error" ELSE "stopped"]
    /\ productId = [i \in Instances |-> RequestedProduct]
    /\ cancelDate = [i \in Instances |-> state[i] = "cancelled"]
    /\ errorMessage = [i \in Instances |-> state[i] = "errored"]
    /\ sshKeys = [i \in Instances |-> NoCluster]
    /\ tags = {}
    /\ tagAssignments = {}
    /\ secrets = {}
    /\ inflight = {}
    /\ kubeNode = [i \in Instances |-> NoCluster]
    /\ kubeRoles = [i \in Instances |-> {}]
    /\ drained = [i \in Instances |-> FALSE]
    /\ adminConf = [i \in Instances |-> NoCluster]
    /\ InitCallers

\* the calls of Spec on such a pool
SpecAnyPool == InitAnyPool /\ [][Next]_vars

\* the calls of Spec, with either mode of provisionNode (the administrator
\* passes "manual" only)
NextAnyMode ==
  \/ \E p \in Callers, c \in ClusterIds, m \in Modes :
       Sequenced(p) /\ StartProvisionNode(p, c, m)
  \/ \E p \in Callers, c \in ClusterIds, n \in Instances :
       Sequenced(p) /\ StartDeprovisionNode(p, c, n)
  \/ ProvisionerStep

SpecAnyMode == Init /\ [][NextAnyMode]_vars

\* any two calls may overlap; the pool holds an instance of another product
NextRace ==
  \/ \E p \in Callers, c \in ClusterIds : StartProvisionNode(p, c, "manual")
  \/ \E p \in Callers, c \in ClusterIds, n \in Instances : StartDeprovisionNode(p, c, n)
  \/ ProvisionerStep

InitRace == InitPool(mixedPool)

SpecRace == InitRace /\ [][NextRace]_vars

\* ---- removeNode (AbstractKubernetesAdministrator) ------------------------------
Roles == {"control-plane", "worker"}

\* the nodes whose ssh + kubectl can answer the administrator's listNodes:
\* they are listed for the cluster and hold an admin.conf
responders(c) == {j \in listNodes(displayName, c) : adminConf[j] # NoCluster}

\* administrator's listNodes({clusterId, role}): the addresses of the nodes with
\* the role label, as the responding node's cluster reports them, select the
\* nodes the provisioner lists for the cluster
adminListNodes(c, role, responder) ==
  {i \in listNodes(displayName, c) :
     /\ kubeNode[i] # NoCluster
     /\ kubeNode[i] = adminConf[responder]
     /\ role \in kubeRoles[i]}

\* the condition without the exclusion of the node to remove
isAnyControlPlane(controlPlane, nodeToRemove) == TRUE

\* condition of the findAsync that looks for the coordinator
isOtherControlPlane(controlPlane, nodeToRemove) ==
  publicIp(controlPlane) # publicIp(nodeToRemove)

\* the control-plane nodes of cluster c
controlPlaneNodes(c) ==
  {i \in Instances : /\ displayName[i] = displayNameOf(i, c)
                     /\ kubeNode[i] = c
                     /\ "control-plane" \in kubeRoles[i]}

StartRemoveNode(p, c, n) ==
  /\ NextCaller(p)
  /\ op' = [op EXCEPT ![p] = "removeNode"]
  /\ pc' = [pc EXCEPT ![p] = "findNode"]
  /\ clusterId' = [clusterId EXCEPT ![p] = c]
  /\ nodeId' = [nodeId EXCEPT ![p] = n]
  /\ hist' = [hist EXCEPT ![p].sole = controlPlaneNodes(c) = {n}]
  /\ UNCHANGED <<providerVars, kubeVars, mode, paging, adminLocals, retry, instance, checked, error, tagLen,
                 controlPlaneNode, held, deprovisioned>>

\* a removeNode call that threw
ThrowRemoveNode(p, e) ==
  /\ Throw(p, e)
  /\ controlPlaneNode' = [controlPlaneNode EXCEPT ![p] = NoInstance]

\* nodeToRemove = findAsync(provisioner.listNodes(...), node.id === nodeId)
RemoveNodeFind(p) ==
  /\ op[p] = "removeNode" /\ pc[p] = "findNode"
  /\ IF nodeId[p] \in listNodes(displayName, clusterId[p])
       THEN /\ pc' = [pc EXCEPT ![p] = "findControlPlane"]
            /\ UNCHANGED <<error, retry, instance, checked, tagLen, controlPlaneNode>>
       ELSE ThrowRemoveNode(p, "node_not_found")
  /\ UNCHANGED <<providerVars, kubeVars, op, mode, paging, adminLocals, historyVars>>
  /\ Arguments(p)

\* controlPlaneNode = findAsync(this.listNodes({clusterId, role: "control-plane"}), ...):
\* the first listed node whose ssh + kubectl answers gives the addresses; no
\* node answering, listNodes throws; no other control-plane node among the
\* listed ones, findAsync throws
RemoveNodeFindControlPlane(p) ==
  /\ op[p] = "removeNode" /\ pc[p] = "findControlPlane"
  /\ \/ ThrowRemoveNode(p, "no_control_plane_found")
     \/ \E responder \in responders(clusterId[p]) :
          LET found == {m \in adminListNodes(clusterId[p], "control-plane", responder) :
                          isOtherControlPlane(m, nodeId[p])}
          IN IF found = {}
               THEN ThrowRemoveNode(p, "only_control_plane")
               ELSE /\ controlPlaneNode' = [controlPlaneNode EXCEPT ![p] =
                         CHOOSE m \in found : \A k \in found : m <= k]
                    /\ pc' = [pc EXCEPT ![p] = "drain"]
                    /\ UNCHANGED <<error, retry, instance, checked, tagLen>>
  /\ UNCHANGED <<providerVars, kubeVars, op, mode, paging, adminLocals, historyVars>>
  /\ Arguments(p)

\* kubectl on the coordinator reaches the node object of the node to remove
coordinatorSees(p) ==
  /\ adminConf[controlPlaneNode[p]] # NoCluster
  /\ kubeNode[nodeId[p]] = adminConf[controlPlaneNode[p]]

\* executeSSH(controlPlaneNode.publicIp, `kubectl ... drain ${nodeToRemove.name} ...`)
RemoveNodeDrain(p) ==
  /\ op[p] = "removeNode" /\ pc[p] = "drain"
  /\ \/ /\ coordinatorSees(p)
        /\ drained' = [drained EXCEPT ![nodeId[p]] = TRUE]
        /\ pc' = [pc EXCEPT ![p] = "deleteNode"]
        /\ UNCHANGED <<error, retry, instance, checked, tagLen, controlPlaneNode>>
     \/ /\ ThrowRemoveNode(p, "drain")
        /\ UNCHANGED drained
  /\ UNCHANGED <<providerVars, kubeNode, kubeRoles, adminConf, op, mode, paging, adminLocals, historyVars>>
  /\ Arguments(p)

\* executeSSH(controlPlaneNode.publicIp, `kubectl ... delete node ${nodeToRemove.name}`)
RemoveNodeDelete(p) ==
  /\ op[p] = "removeNode" /\ pc[p] = "deleteNode"
  /\ \/ /\ coordinatorSees(p)
        /\ kubeNode' = [kubeNode EXCEPT ![nodeId[p]] = NoCluster]
        /\ kubeRoles' = [kubeRoles EXCEPT ![nodeId[p]] = {}]
        /\ drained' = [drained EXCEPT ![nodeId[p]] = FALSE]
        /\ pc' = [pc EXCEPT ![p] = "resetNode"]
        /\ UNCHANGED <<error, retry, instance, checked, tagLen, controlPlaneNode>>
     \/ /\ ThrowRemoveNode(p, "delete_node")
        /\ UNCHANGED <<kubeNode, kubeRoles, drained>>
  /\ UNCHANGED <<providerVars, adminConf, op, mode, paging, adminLocals, historyVars>>
  /\ Arguments(p)

\* the error of the reset not caught
afterResetErrorRethrown == "failed"

\* where removeNode goes on after kubeadm reset or the cleanup threw:
\* catch (error) { console.error(...) }, then provisioner.deprovisionNode
afterResetError == "unassignTag"

\* try { kubeadm reset -f; rm -rf /etc/kubernetes ... } catch { console.error },
\* then on to provisioner.deprovisionNode
RemoveNodeReset(p) ==
  /\ op[p] = "removeNode" /\ pc[p] = "resetNode"
  /\ \/ /\ adminConf' = [adminConf EXCEPT ![nodeId[p]] = NoCluster]
        /\ pc' = [pc EXCEPT ![p] = "unassignTag"]
        /\ UNCHANGED error
     \/ /\ UNCHANGED adminConf
        /\ pc' = [pc EXCEPT ![p] = afterResetError]
        /\ error' = [error EXCEPT ![p] = IF afterResetError = "failed" THEN "ssh" ELSE @]
  /\ UNCHANGED <<providerVars, kubeNode, kubeRoles, drained, op, mode, paging, adminLocals, clusterId, nodeId,
                 retry, instance, checked, tagLen, controlPlaneNode, historyVars>>

\* ---- specification of the administrator ---------------------------------------
\* what an instance is when the administrator is called: unclaimed, or a node
\* that was provisioned for a cluster and joined it with a role
NotMember == [clusterId |-> NoCluster, role |-> "none"]
Memberships == {NotMember} \cup [clusterId : ClusterIds, role : Roles]

\* the nodes were provisioned from a pool whose last instance is of another
\* product; a worker joined its cluster through a control-plane node (addNode),
\* and the last control-plane node of a cluster is not removed before it
InitAdmin ==
  \E member \in [Instances -> Memberships] :
    LET joined(i) == member[i].clusterId # NoCluster
    IN /\ \A i \in Instances : joined(i) => mixedPool[i] = RequestedProduct
       /\ \A i \in Instances : member[i].role = "worker" =>
            \E j \in Instances : member[j] = [clusterId |-> member[i].clusterId,
                                              role |-> "control-plane"]
       /\ displayName = [i \in Instances |->
            IF joined(i) THEN displayNameOf(i, member[i].clusterId) ELSE <<>>]
       /\ status = [i \in Instances |-> IF joined(i) THEN "running" ELSE "stopped"]
       /\ productId = mixedPool
       /\ cancelDate = [i \in Instances |-> FALSE]
       /\ errorMessage = [i \in Instances |-> FALSE]
       /\ sshKeys = [i \in Instances |-> member[i].clusterId]
       /\ tags = {member[i].clusterId : i \in {j \in Instances : joined(j)}}
       /\ tagAssignments = {<<member[i].clusterId, i>> : i \in {j \in Instances : joined(j)}}
       /\ secrets = {member[i].clusterId : i \in {j \in Instances : joined(j)}}
       /\ inflight = {}
       /\ kubeNode = [i \in Instances |-> member[i].clusterId]
       /\ kubeRoles = [i \in Instances |-> IF joined(i) THEN {member[i].role} ELSE {}]
       /\ drained = [i \in Instances |-> FALSE]
       /\ adminConf = [i \in Instances |->
            IF member[i].role = "control-plane" THEN member[i].clusterId ELSE NoCluster]
       /\ InitCallers

NextAdmin ==
  \/ \E p \in Callers, c \in ClusterIds, n \in Instances :
       Sequenced(p) /\ StartRemoveNode(p, c, n)
  \/ \E p \in Callers : RemoveNodeFind(p)
  \/ \E p \in Callers : RemoveNodeFindControlPlane(p)
  \/ \E p \in Callers : RemoveNodeDrain(p)
  \/ \E p \in Callers : RemoveNodeDelete(p)
  \/ \E p \in Callers : RemoveNodeReset(p)
  \/ \E p \in Callers, c \in ClusterIds, n \in Instances :
       Sequenced(p) /\ StartDeprovisionNode(p, c, n)
  \/ \E p \in Callers : UnassignTag(p)
  \/ \E p \in Callers : DeleteTagAssignment(p)
  \/ \E p \in Callers : DeleteTag(p)
  \/ \E p \in Callers : ResetInstanceClear(p)
  \/ \E p \in Callers : ResetInstanceStop(p)

SpecAdmin == InitAdmin /\ [][NextAdmin]_vars

\* ---- initCluster (AbstractKubernetesAdministrator) -------------------------------
\* initCluster({clusterId}) for a cluster id that is not in use: it begins with
\* provisionNode({mode: "manual", clusterId})
StartInitCluster(p, c) ==
  /\ NextCaller(p)
  /\ \A i \in Instances : displayName[i] # displayNameOf(i, c)
  /\ op' = [op EXCEPT ![p] = "provisionNode"]
  /\ mode' = [mode EXCEPT ![p] = "manual"]
  /\ pc' = [pc EXCEPT ![p] = "ensureInstance"]
  /\ clusterId' = [clusterId EXCEPT ![p] = c]
  /\ hist' = [hist EXCEPT ![p].initCluster = TRUE]
  /\ UNCHANGED <<providerVars, kubeVars, nodeId, retry, paging, adminLocals, instance, checked, error,
                 tagLen, controlPlaneNode, held, deprovisioned>>

\* the commands initCluster runs on controlPlaneNode over ssh, in the order of
\* the code, up to the one that makes the node the control plane
initClusterCommands ==
  <<"kubeadm reset", "rm", "installDependencies", "kubeadm config", "kubeadm init">>

\* provisionNode returned controlPlaneNode: kubeadm reset, cleanup,
\* installDependencies, kubeadm init and the copy of admin.conf, over ssh.  A
\* failing command throws, before or after kubeadm init made the node the
\* control plane of the cluster; the call is about to return otherwise
InitClusterBootstrap(p) ==
  /\ op[p] = "provisionNode" /\ pc[p] = "done" /\ hist[p].initCluster
  /\ op' = [op EXCEPT ![p] = "initCluster"]
  /\ LET i == instance[p].instanceId
     IN \E initialised \in BOOLEAN, returns \in BOOLEAN :
          /\ returns => initialised
          /\ IF initialised
               THEN /\ kubeNode' = [kubeNode EXCEPT ![i] = clusterId[p]]
                    /\ kubeRoles' = [kubeRoles EXCEPT ![i] = {"control-plane"}]
                    /\ drained' = [drained EXCEPT ![i] = FALSE]
                    /\ adminConf' = [adminConf EXCEPT ![i] = clusterId[p]]
               ELSE UNCHANGED kubeVars
          /\ IF returns
               THEN /\ pc' = [pc EXCEPT ![p] = "return"]
                    /\ log' = [log EXCEPT ![p] =
                                 [k \in 1..Len(initClusterCommands) |->
                                    <<initClusterCommands[k], i>>] \o <<<<"cp admin.conf", i>>>>]
                    /\ UNCHANGED <<clusterId, instance, checked, error, retry, tagLen>>
               ELSE /\ Throw(p, "ssh")
                    /\ clusterId' = [clusterId EXCEPT ![p] = NoCluster]
                    /\ UNCHANGED log
  /\ UNCHANGED <<providerVars, mode, paging, tasks, etcdHealth, timer, nodeId, controlPlaneNode,
                 historyVars>>

\* return clusterId
InitClusterReturn(p) ==
  /\ op[p] = "initCluster" /\ pc[p] = "return"
  /\ pc' = [pc EXCEPT ![p] = "done"]
  /\ instance' = [instance EXCEPT ![p] = NoLocal]
  /\ checked' = [checked EXCEPT ![p] = NoChecks]
  /\ log' = [log EXCEPT ![p] = <<>>]
  /\ UNCHANGED <<providerVars, kubeVars, op, mode, paging, tasks, etcdHealth, timer, clusterId, nodeId,
                 retry, error, tagLen, controlPlaneNode, historyVars>>

\* the calls of Spec and initCluster
NextInit ==
  \/ Next
  \/ \E p \in Callers, c \in ClusterIds : Sequenced(p) /\ StartInitCluster(p, c)
  \/ \E p \in Callers : InitClusterBootstrap(p)
  \/ \E p \in Callers : InitClusterReturn(p)

SpecInit == Init /\ [][NextInit]_vars

\* ---- addNode (AbstractKubernetesAdministrator) -----------------------------------
\* addNode({clusterId, roles: [role]})
StartAddNode(p, c, role) ==
  /\ NextCaller(p)
  /\ op' = [op EXCEPT ![p] = "addNode"]
  /\ pc' = [pc EXCEPT ![p] = "findControlPlane"]
  /\ clusterId' = [clusterId EXCEPT ![p] = c]
  /\ hist' = [hist EXCEPT ![p].addNode = role]
  /\ UNCHANGED <<providerVars, kubeVars, mode, paging, adminLocals, nodeId, retry, instance,
                 checked, error, tagLen, controlPlaneNode, held, deprovisioned>>

\* the lookup found no control-plane node and went on all the same
afterNoControlPlaneIgnored == "ensureInstance"

\* where addNode is after the lookup of the control-plane node threw: listNodes
\* throws when no node answers, firstAsync throws notFoundError when the
\* generator yields nothing; addNode catches neither
afterNoControlPlane == "failed"

\* controlPlaneNode = await firstAsync({generator: this.listNodes({clusterId,
\* role: "control-plane"}), notFoundError}), then the call of
\* provisionNode({mode: "manual", clusterId})
AddNodeFindControlPlane(p) ==
  /\ op[p] = "addNode" /\ pc[p] = "findControlPlane"
  /\ \E found \in {{}} \cup {adminListNodes(clusterId[p], "control-plane", responder) :
                                responder \in responders(clusterId[p])} :
       LET next == IF found = {} THEN afterNoControlPlane ELSE "ensureInstance"
       IN /\ pc' = [pc EXCEPT ![p] = next]
          /\ controlPlaneNode' = [controlPlaneNode EXCEPT ![p] =
               IF found = {} THEN NoInstance
               ELSE CHOOSE m \in found : \A k \in found : m <= k]
          /\ op' = [op EXCEPT ![p] = IF next = "failed" THEN "addNode" ELSE "provisionNode"]
          /\ mode' = [mode EXCEPT ![p] = IF next = "failed" THEN @ ELSE "manual"]
          /\ error' = [error EXCEPT ![p] =
               IF next = "failed" THEN "no_control_plane_found" ELSE @]
  /\ UNCHANGED <<providerVars, kubeVars, paging, adminLocals, retry, instance, checked, tagLen,
                 historyVars>>
  /\ Arguments(p)

\* provisionNode returned newNode: kubeadm reset and the cleanup on it,
\* installDependencies, the join command asked of controlPlaneNode, the join,
\* the role labels, return newNode.  A control-plane node gets its admin.conf
\* and its role when it joins, a worker its role with the label.  The first
\* command that fails throws
AddNodeJoin(p) ==
  /\ op[p] = "provisionNode" /\ pc[p] = "done" /\ hist[p].addNode # "none"
  /\ op' = [op EXCEPT ![p] = "addNode"]
  /\ LET i == instance[p].instanceId
         role == hist[p].addNode
         cluster == IF controlPlaneNode[p] = NoInstance THEN NoCluster
                    ELSE adminConf[controlPlaneNode[p]]
     IN \E reached \in {"reset", "join", "label", "return"} :
          /\ reached \in {"label", "return"} => cluster # NoCluster
          /\ kubeNode' = IF reached \in {"label", "return"}
                            THEN [kubeNode EXCEPT ![i] = cluster] ELSE kubeNode
          /\ kubeRoles' =
               IF reached = "return" \/ (reached = "label" /\ role = "control-plane")
                 THEN [kubeRoles EXCEPT ![i] = {role}] ELSE kubeRoles
          /\ adminConf' =
               IF reached = "reset" THEN adminConf
               ELSE [adminConf EXCEPT ![i] =
                       IF reached # "join" /\ role = "control-plane" THEN cluster
                       ELSE NoCluster]
          /\ IF reached = "return"
               THEN /\ pc' = [pc EXCEPT ![p] = "done"]
                    /\ UNCHANGED <<clusterId, instance, checked, error, retry, tagLen>>
               ELSE /\ Throw(p, "ssh")
                    /\ clusterId' = [clusterId EXCEPT ![p] = NoCluster]
  /\ controlPlaneNode' = [controlPlaneNode EXCEPT ![p] = NoInstance]
  /\ UNCHANGED <<providerVars, drained, mode, paging, adminLocals, nodeId, historyVars>>

\* addNode calls, one after the other, on the clusters of the administrator
NextAdd ==
  \/ \E p \in Callers, c \in ClusterIds, role \in Roles :
       Sequenced(p) /\ StartAddNode(p, c, role)
  \/ \E p \in Callers : AddNodeFindControlPlane(p)
  \/ \E p \in Callers : AddNodeJoin(p)
  \/ \E p \in Callers : EnsureInstanceFind(p)
  \/ \E p \in Callers : EnsureInstanceClaim(p)
  \/ \E p \in Callers : EnsureInstanceGet(p)
  \/ \E p \in Callers : AssignTag(p)
  \/ \E p \in Callers : CheckNode(p)
  \/ LandDisplayNameWrite
  \/ \E p \in Callers : ResetInstanceClear(p)
  \/ \E p \in Callers : ResetInstanceStop(p)

SpecAdd == InitAdmin /\ [][NextAdd]_vars

\* ---- deleteCluster (AbstractKubernetesAdministrator) ------------------------------
StartDeleteCluster(p, c) ==
  /\ NextCaller(p)
  /\ op' = [op EXCEPT ![p] = "deleteCluster"]
  /\ pc' = [pc EXCEPT ![p] = "listNodes"]
  /\ clusterId' = [clusterId EXCEPT ![p] = c]
  /\ UNCHANGED <<providerVars, kubeVars, mode, paging, adminLocals, nodeId, retry, instance,
                 checked, error, tagLen, controlPlaneNode, historyVars>>

\* nodes = await Array.fromAsync(provisioner.listNodes({clusterId})), then
\* nodes.map(async (node) => ...): one async function per node, each of them
\* started and at its first await
DeleteClusterList(p) ==
  /\ op[p] = "deleteCluster" /\ pc[p] = "listNodes"
  /\ tasks' = [tasks EXCEPT ![p] =
       [i \in Instances |-> IF i \in listNodes(displayName, clusterId[p])
                              THEN [pc |-> "reset", tagLen |-> 0] ELSE NoTask]]
  /\ pc' = [pc EXCEPT ![p] = "allSettled"]
  /\ UNCHANGED <<providerVars, kubeVars, op, mode, paging, log, etcdHealth, timer, clusterId, nodeId,
                 retry, instance, checked, error, tagLen, controlPlaneNode, historyVars>>

\* the async function of node i of caller p is at position at
TaskAt(p, i, at) == tasks[p][i].pc = at

\* it goes on to position next
TaskGoes(p, i, next) == tasks' = [tasks EXCEPT ![p][i].pc = next]

\* what the steps of an async function leave alone in the caller
TaskFrame ==
  UNCHANGED <<op, mode, paging, log, etcdHealth, timer, pc, clusterId, nodeId, retry, instance,
              checked, error, tagLen, controlPlaneNode>>

\* try { kubeadm reset -f; rm -rf /etc/kubernetes ...; deprovisionNode }
\* catch (error) { console.error }: a failing command ends the function of the
\* node, and ends it without a rejection
DeleteClusterReset(p, i) ==
  /\ TaskAt(p, i, "reset")
  /\ \/ /\ adminConf' = [adminConf EXCEPT ![i] = NoCluster]
        /\ TaskGoes(p, i, "unassignTag")
     \/ /\ UNCHANGED adminConf
        /\ TaskGoes(p, i, "caught")
  /\ TaskFrame
  /\ UNCHANGED <<providerVars, kubeNode, kubeRoles, drained, historyVars>>

\* deprovisionNode({clusterId, nodeId: node.id}) in the function of node i:
\* unassignTag's getTagByName and listTagAssignments
DeleteClusterUnassignTag(p, i) ==
  /\ TaskAt(p, i, "unassignTag")
  /\ LET assigned == {a \in tagAssignments : a[1] = clusterId[p]}
     IN IF clusterId[p] \notin tags \/ assigned = {}
          THEN TaskGoes(p, i, afterUnassignTagError)
          ELSE tasks' = [tasks EXCEPT ![p][i] =
                          [pc |-> "deleteTagAssignment", tagLen |-> Cardinality(assigned)]]
  /\ TaskFrame
  /\ UNCHANGED <<providerVars, kubeVars, historyVars>>

\* unassignTag's provider.deleteTagAssignment
DeleteClusterDeleteTagAssignment(p, i) ==
  /\ TaskAt(p, i, "deleteTagAssignment")
  /\ LET a == <<clusterId[p], i>>
     IN IF a \in tagAssignments
          THEN /\ tagAssignments' = tagAssignments \ {a}
               /\ TaskGoes(p, i, IF tasks[p][i].tagLen = 1 THEN "deleteTag"
                                 ELSE "resetInstance")
          ELSE /\ UNCHANGED tagAssignments
               /\ TaskGoes(p, i, afterUnassignTagError)
  /\ TaskFrame
  /\ UNCHANGED <<displayName, status, productId, cancelDate, errorMessage, sshKeys, tags,
                 secrets, inflight, kubeVars, historyVars>>

\* unassignTag's provider.deleteTag
DeleteClusterDeleteTag(p, i) ==
  /\ TaskAt(p, i, "deleteTag")
  /\ tags' = tags \ {clusterId[p]}
  /\ TaskGoes(p, i, "resetInstance")
  /\ TaskFrame
  /\ UNCHANGED <<displayName, status, productId, cancelDate, errorMessage, sshKeys,
                 tagAssignments, secrets, inflight, kubeVars, historyVars>>

\* resetInstance's setInstanceDisplayName(instanceId, "")
DeleteClusterResetInstance(p, i) ==
  /\ TaskAt(p, i, "resetInstance")
  /\ displayName' = [displayName EXCEPT ![i] = resetDisplayName(i)]
  /\ held' = held \ {<<clusterId[p], i>>}
  /\ TaskGoes(p, i, "stopInstance")
  /\ TaskFrame
  /\ UNCHANGED <<status, productId, cancelDate, errorMessage, sshKeys, tags, tagAssignments,
                 secrets, inflight, kubeVars, deprovisioned, hist>>

\* resetInstance's stopInstance; deprovisionNode returns and so does the
\* function of the node
DeleteClusterStopInstance(p, i) ==
  /\ TaskAt(p, i, "stopInstance")
  /\ status' = [status EXCEPT ![i] = "stopped"]
  /\ tasks' = [tasks EXCEPT ![p][i] = [pc |-> "fulfilled", tagLen |-> 0]]
  /\ TaskFrame
  /\ UNCHANGED <<displayName, productId, cancelDate, errorMessage, sshKeys, tags,
                 tagAssignments, secrets, inflight, kubeVars, historyVars>>

\* a combinator that rejects when the function of a node ended on an error
allSettledRethrown(nodeTasks) ==
  IF \E i \in Instances : nodeTasks[i].pc = "caught" THEN "failed" ELSE "done"

\* await Promise.allSettled(...) once every function has ended: it fulfils
\* whatever their outcomes
allSettled(nodeTasks) == "done"

\* deleteCluster returns
DeleteClusterSettled(p) ==
  /\ op[p] = "deleteCluster" /\ pc[p] = "allSettled"
  /\ \A i \in Instances : tasks[p][i].pc \in {"none", "caught", "fulfilled"}
  /\ pc' = [pc EXCEPT ![p] = allSettled(tasks[p])]
  /\ tasks' = [tasks EXCEPT ![p] = NoTasks]
  /\ UNCHANGED <<providerVars, kubeVars, op, mode, paging, log, etcdHealth, timer, nodeId, retry,
                 instance, checked, error, tagLen, controlPlaneNode, historyVars>>
  /\ Arguments(p)

\* deleteCluster calls, one after the other, on the clusters of the administrator
NextDelete ==
  \/ \E p \in Callers, c \in ClusterIds : Sequenced(p) /\ StartDeleteCluster(p, c)
  \/ \E p \in Callers : DeleteClusterList(p)
  \/ \E p \in Callers, i \in Instances : DeleteClusterReset(p, i)
  \/ \E p \in Callers, i \in Instances : DeleteClusterUnassignTag(p, i)
  \/ \E p \in Callers, i \in Instances : DeleteClusterDeleteTagAssignment(p, i)
  \/ \E p \in Callers, i \in Instances : DeleteClusterDeleteTag(p, i)
  \/ \E p \in Callers, i \in Instances : DeleteClusterResetInstance(p, i)
  \/ \E p \in Callers, i \in Instances : DeleteClusterStopInstance(p, i)
  \/ \E p \in Callers : DeleteClusterSettled(p)

SpecDelete == InitAdmin /\ [][NextDelete]_vars

\* ---- etcd operations (AbstractKubernetesAdministrator) ----------------------------
\* etcd runs on the control-plane nodes: clusters made of control-plane nodes
InitEtcd ==
  /\ InitAdmin
  /\ \A i \in Instances : "worker" \notin kubeRoles[i]

\* provisionNode and deprovisionNode calls that overlap, on clusters that exist
SpecTagRace == InitEtcd /\ [][NextRace]_vars

\* an etcd operation that threw: its locals are gone
ThrowEtcd(p, e) ==
  /\ Throw(p, e)
  /\ clusterId' = [clusterId EXCEPT ![p] = NoCluster]
  /\ controlPlaneNode' = [controlPlaneNode EXCEPT ![p] = NoInstance]
  /\ log' = [log EXCEPT ![p] = <<>>]
  /\ tasks' = [tasks EXCEPT ![p] = NoTasks]
  /\ etcdHealth' = [etcdHealth EXCEPT ![p] = NoHealth]
  /\ UNCHANGED timer

\* it goes on to position next
Goes(p, next) ==
  /\ pc' = [pc EXCEPT ![p] = next]
  /\ UNCHANGED <<error, retry, instance, checked, tagLen>>

\* what the steps of the etcd operations leave alone
EtcdFrame == UNCHANGED <<providerVars, kubeVars, mode, paging, nodeId, historyVars>>

\* command ran on node with success
Ran(p, command, node) == log' = [log EXCEPT ![p] = Append(@, <<command, node>>)]

\* the nodes the call listed
listed(p) == {i \in Instances : tasks[p][i].pc # "none"}

\* controlPlaneNode = await firstAsync({generator: this.listNodes({clusterId,
\* role: "control-plane"}), notFoundError}) of checkEtcdHealth and backupEtcd:
\* it throws when no node answers and when no control-plane node is listed
EtcdFindControlPlane(p) ==
  /\ op[p] \in {"checkEtcdHealth", "backupEtcd"} /\ pc[p] = "findControlPlane"
  /\ \E found \in {{}} \cup {adminListNodes(clusterId[p], "control-plane", responder) :
                                responder \in responders(clusterId[p])} :
       IF found = {}
         THEN ThrowEtcd(p, "no_control_plane_found")
         ELSE /\ controlPlaneNode' = [controlPlaneNode EXCEPT ![p] =
                   CHOOSE m \in found : \A k \in found : m <= k]
              /\ Goes(p, IF op[p] = "checkEtcdHealth" THEN "etcdctl" ELSE "snapshotSave")
              /\ UNCHANGED <<clusterId, adminLocals>>
  /\ UNCHANGED op
  /\ EtcdFrame

\* ---- checkEtcdHealth ----------------------------------------------------------------
\* the lines "endpoint health --cluster" can print: an empty one, a blank one,
\* one of a healthy endpoint, one of an unhealthy endpoint, anything else
Lines ==
  {<<>>, <<" ">>, <<"endpoint", " ", "is healthy">>, <<"endpoint", " ", "is unhealthy">>,
   <<"?">>}

\* healthOutput as split("\n") sees it: split yields at least one line, the
\* empty one for the empty output
HealthOutputs == UNION {[1..n -> Lines] : n \in 1..MaxLines}

RECURSIVE trimStart(_)
trimStart(line) ==
  IF line # <<>> /\ Head(line) = " " THEN trimStart(Tail(line)) ELSE line

RECURSIVE trimEnd(_)
trimEnd(line) ==
  IF line # <<>> /\ line[Len(line)] = " " THEN trimEnd(SubSeq(line, 1, Len(line) - 1))
  ELSE line

\* line.trim()
trim(line) == trimEnd(trimStart(line))

\* (line) => line.trim() !== ""
isNotBlank(line) == trim(line) # <<>>

\* (line) => line.includes("is healthy")
isHealthy(line) == includes(line, <<"is healthy">>)

\* healthLines.some(isHealthy)
someHealthy(healthLines) == \E k \in 1..Len(healthLines) : isHealthy(healthLines[k])

\* allHealthy = healthLines.every((line) => line.includes("is healthy"))
allHealthy(healthLines) == \A k \in 1..Len(healthLines) : isHealthy(healthLines[k])

\* the EtcdHealthStatus parsed from healthOutput
etcdHealthStatus(healthOutput) ==
  LET healthLines == SelectSeq(healthOutput, isNotBlank)
  IN [healthOutput |-> healthOutput,
      healthy |-> allHealthy(healthLines),
      healthyEndpoints |-> Len(SelectSeq(healthLines, isHealthy)),
      totalEndpoints |-> Len(healthLines)]

StartCheckEtcdHealth(p, c) ==
  /\ NextCaller(p)
  /\ op' = [op EXCEPT ![p] = "checkEtcdHealth"]
  /\ pc' = [pc EXCEPT ![p] = "findControlPlane"]
  /\ clusterId' = [clusterId EXCEPT ![p] = c]
  /\ UNCHANGED <<providerVars, kubeVars, mode, paging, adminLocals, nodeId, retry, instance,
                 checked, error, tagLen, controlPlaneNode, historyVars>>

\* the three etcdctl commands on controlPlaneNode (endpoint health, member
\* list, alarm list), one of which may fail, and the parsing of what they print
CheckEtcdHealthParse(p) ==
  /\ op[p] = "checkEtcdHealth" /\ pc[p] = "etcdctl" /\ ~hist[p].upgradeCluster
  /\ \/ ThrowEtcd(p, "ssh")
     \/ \E healthOutput \in HealthOutputs :
          /\ etcdHealth' = [etcdHealth EXCEPT ![p] = etcdHealthStatus(healthOutput)]
          /\ UNCHANGED timer
          /\ Goes(p, "return")
          /\ controlPlaneNode' = [controlPlaneNode EXCEPT ![p] = NoInstance]
          /\ UNCHANGED <<clusterId, log, tasks>>
  /\ UNCHANGED op
  /\ EtcdFrame

\* return {healthy, healthyEndpoints, totalEndpoints, ...}
CheckEtcdHealthReturn(p) ==
  /\ op[p] = "checkEtcdHealth" /\ pc[p] = "return"
  /\ pc' = [pc EXCEPT ![p] = "done"]
  /\ etcdHealth' = [etcdHealth EXCEPT ![p] = NoHealth]
  /\ UNCHANGED timer
  /\ clusterId' = [clusterId EXCEPT ![p] = NoCluster]
  /\ UNCHANGED <<providerVars, kubeVars, op, mode, paging, log, tasks, nodeId, retry, instance,
                 checked, error, tagLen, controlPlaneNode, historyVars>>

\* checkEtcdHealth calls, one after the other
NextHealth ==
  \/ \E p \in Callers, c \in ClusterIds : Sequenced(p) /\ StartCheckEtcdHealth(p, c)
  \/ \E p \in Callers : EtcdFindControlPlane(p)
  \/ \E p \in Callers : CheckEtcdHealthParse(p)
  \/ \E p \in Callers : CheckEtcdHealthReturn(p)

SpecHealth == InitEtcd /\ [][NextHealth]_vars

\* ---- backupEtcd ---------------------------------------------------------------------
StartBackupEtcd(p, c) ==
  /\ NextCaller(p)
  /\ op' = [op EXCEPT ![p] = "backupEtcd"]
  /\ pc' = [pc EXCEPT ![p] = "findControlPlane"]
  /\ clusterId' = [clusterId EXCEPT ![p] = c]
  /\ UNCHANGED <<providerVars, kubeVars, mode, paging, adminLocals, nodeId, retry, instance,
                 checked, error, tagLen, controlPlaneNode, historyVars>>

\* executeSSH(controlPlaneNode.publicIp, `etcdctl ... snapshot save ${backupPath}`)
BackupEtcdSave(p) ==
  /\ op[p] = "backupEtcd" /\ pc[p] = "snapshotSave"
  /\ \/ ThrowEtcd(p, "ssh")
     \/ /\ Ran(p, "snapshot save", controlPlaneNode[p])
        /\ Goes(p, "snapshotStatus")
        /\ UNCHANGED <<clusterId, controlPlaneNode, tasks, etcdHealth, timer>>
  /\ UNCHANGED op
  /\ EtcdFrame

\* the failure of the verification swallowed
afterStatusErrorIgnored == "return"

\* where backupEtcd is after the verification failed: executeSSH rejects on a
\* command that exits with an error, and backupEtcd does not catch
afterStatusError == "failed"

\* executeSSH(controlPlaneNode.publicIp, `etcdctl --write-out=table snapshot
\* status ${backupPath}`): etcdctl exits with an error on a snapshot it cannot
\* read (malformed, of size zero); its output is not looked at
BackupEtcdStatus(p) ==
  /\ op[p] = "backupEtcd" /\ pc[p] = "snapshotStatus"
  /\ \/ /\ Ran(p, "snapshot status", controlPlaneNode[p])
        /\ Goes(p, "return")
        /\ UNCHANGED <<clusterId, controlPlaneNode, tasks, etcdHealth, timer>>
     \/ IF afterStatusError = "failed"
          THEN ThrowEtcd(p, "snapshot_status")
          ELSE /\ Goes(p, afterStatusError)
               /\ UNCHANGED <<clusterId, controlPlaneNode, adminLocals>>
  /\ UNCHANGED op
  /\ EtcdFrame

\* return backupPath
BackupEtcdReturn(p) ==
  /\ op[p] = "backupEtcd" /\ pc[p] = "return" /\ ~hist[p].upgradeCluster
  /\ Goes(p, "done")
  /\ clusterId' = [clusterId EXCEPT ![p] = NoCluster]
  /\ controlPlaneNode' = [controlPlaneNode EXCEPT ![p] = NoInstance]
  /\ log' = [log EXCEPT ![p] = <<>>]
  /\ UNCHANGED <<op, tasks, etcdHealth, timer>>
  /\ EtcdFrame

\* backupEtcd calls, one after the other
NextBackup ==
  \/ \E p \in Callers, c \in ClusterIds : Sequenced(p) /\ StartBackupEtcd(p, c)
  \/ \E p \in Callers : EtcdFindControlPlane(p)
  \/ \E p \in Callers : BackupEtcdSave(p)
  \/ \E p \in Callers : BackupEtcdStatus(p)
  \/ \E p \in Callers : BackupEtcdReturn(p)

SpecBackup == InitEtcd /\ [][NextBackup]_vars

\* ---- restoreEtcd --------------------------------------------------------------------
StartRestoreEtcd(p, c) ==
  /\ NextCaller(p)
  /\ op' = [op EXCEPT ![p] = "restoreEtcd"]
  /\ pc' = [pc EXCEPT ![p] = "listControlPlanes"]
  /\ clusterId' = [clusterId EXCEPT ![p] = c]
  /\ UNCHANGED <<providerVars, kubeVars, mode, paging, adminLocals, nodeId, retry, instance,
                 checked, error, tagLen, controlPlaneNode, historyVars>>

\* controlPlaneNodes = await Array.fromAsync(this.listNodes({clusterId, role:
\* "control-plane"})), then controlPlaneNodes.map(async (node) => ...): one
\* async function per node, at its first command
RestoreEtcdList(p) ==
  /\ op[p] = "restoreEtcd" /\ pc[p] = "listControlPlanes"
  /\ \/ ThrowEtcd(p, "no_control_plane_found")
     \/ \E responder \in responders(clusterId[p]) :
          /\ tasks' = [tasks EXCEPT ![p] =
               [i \in Instances |->
                  IF i \in adminListNodes(clusterId[p], "control-plane", responder)
                    THEN [pc |-> "stopKubelet", tagLen |-> 0] ELSE NoTask]]
          /\ Goes(p, "stopAll")
          /\ UNCHANGED <<clusterId, controlPlaneNode, log, etcdHealth, timer>>
  /\ UNCHANGED op
  /\ EtcdFrame

\* a command of the async function of node i: it ran, or it failed and the
\* function of the node rejects
RestoreEtcdCommand(p, i, at, command, next) ==
  /\ op[p] = "restoreEtcd" /\ TaskAt(p, i, at)
  /\ \/ Ran(p, command, i) /\ TaskGoes(p, i, next)
     \/ UNCHANGED log /\ TaskGoes(p, i, "rejected")
  /\ UNCHANGED <<op, mode, paging, etcdHealth, timer, pc, clusterId, nodeId, retry, instance,
                 checked, error, tagLen, controlPlaneNode>>
  /\ UNCHANGED <<providerVars, kubeVars, historyVars>>

\* executeSSH(node.publicIp, "systemctl stop kubelet")
RestoreEtcdStopKubelet(p, i) ==
  RestoreEtcdCommand(p, i, "stopKubelet", "stop kubelet", "stopEtcd")

\* executeSSH(node.publicIp, "docker stop etcd || true"): docker stopped the
\* container; or docker failed (no docker, no container of that name) and the
\* command that succeeded is true, etcd still running; or ssh failed
RestoreEtcdStopEtcd(p, i) ==
  \/ RestoreEtcdCommand(p, i, "stopEtcd", "stop etcd", "fulfilled")
  \/ RestoreEtcdCommand(p, i, "stopEtcd", "true", "fulfilled")

\* Promise.all fulfils once every function has
allFulfilled(nodeTasks) == \A i \in Instances : nodeTasks[i].pc \in {"none", "fulfilled"}

\* await Promise.all(...): it rejects with the first function that rejects
\* (what the other functions still run changes nothing the call looks at)
RestoreEtcdAll(p, at, next) ==
  /\ op[p] = "restoreEtcd" /\ pc[p] = at
  /\ \/ /\ \E i \in Instances : tasks[p][i].pc = "rejected"
        /\ ThrowEtcd(p, "ssh")
     \/ /\ \A i \in Instances : tasks[p][i].pc # "rejected"
        /\ allFulfilled(tasks[p])
        /\ Goes(p, next)
        /\ UNCHANGED <<clusterId, controlPlaneNode, adminLocals>>
  /\ UNCHANGED op
  /\ EtcdFrame

\* the kubelet and etcd are stopped on every node of the list
RestoreEtcdStopped(p) == RestoreEtcdAll(p, "stopAll", "restore")

\* firstControlPlane = controlPlaneNodes[0], and `etcdctl ... snapshot restore
\* ${backupPath}` on it; firstControlPlane.publicIp of an empty list throws
RestoreEtcdRestore(p) ==
  /\ op[p] = "restoreEtcd" /\ pc[p] = "restore"
  /\ \/ ThrowEtcd(p, IF listed(p) = {} THEN "type_error" ELSE "ssh")
     \/ /\ listed(p) # {}
        /\ LET firstControlPlane == CHOOSE m \in listed(p) : \A k \in listed(p) : m <= k
           IN /\ controlPlaneNode' = [controlPlaneNode EXCEPT ![p] = firstControlPlane]
              /\ Ran(p, "snapshot restore", firstControlPlane)
        /\ Goes(p, "swap")
        /\ UNCHANGED <<clusterId, tasks, etcdHealth, timer>>
  /\ UNCHANGED op
  /\ EtcdFrame

\* rm -rf /var/lib/etcd && mv /var/lib/etcd-backup /var/lib/etcd && chown ...
\* on firstControlPlane, then controlPlaneNodes.map(async (node) => ...): one
\* async function per node, at its command
RestoreEtcdSwap(p) ==
  /\ op[p] = "restoreEtcd" /\ pc[p] = "swap"
  /\ \/ ThrowEtcd(p, "ssh")
     \/ /\ Ran(p, "swap", controlPlaneNode[p])
        /\ tasks' = [tasks EXCEPT ![p] =
             [i \in Instances |-> IF i \in listed(p)
                                    THEN [pc |-> "startKubelet", tagLen |-> 0] ELSE NoTask]]
        /\ Goes(p, "startAll")
        /\ UNCHANGED <<clusterId, controlPlaneNode, etcdHealth, timer>>
  /\ UNCHANGED op
  /\ EtcdFrame

\* executeSSH(node.publicIp, "systemctl start kubelet")
RestoreEtcdStartKubelet(p, i) ==
  RestoreEtcdCommand(p, i, "startKubelet", "start kubelet", "fulfilled")

\* the kubelet is started on every node of the list
RestoreEtcdStarted(p) == RestoreEtcdAll(p, "startAll", "return")

\* restoreEtcd returns
RestoreEtcdReturn(p) ==
  /\ op[p] = "restoreEtcd" /\ pc[p] = "return"
  /\ Goes(p, "done")
  /\ clusterId' = [clusterId EXCEPT ![p] = NoCluster]
  /\ controlPlaneNode' = [controlPlaneNode EXCEPT ![p] = NoInstance]
  /\ log' = [log EXCEPT ![p] = <<>>]
  /\ tasks' = [tasks EXCEPT ![p] = NoTasks]
  /\ UNCHANGED <<op, etcdHealth, timer>>
  /\ EtcdFrame

\* restoreEtcd calls, one after the other
NextRestore ==
  \/ \E p \in Callers, c \in ClusterIds : Sequenced(p) /\ StartRestoreEtcd(p, c)
  \/ \E p \in Callers : RestoreEtcdList(p)
  \/ \E p \in Callers, i \in Instances : RestoreEtcdStopKubelet(p, i)
  \/ \E p \in Callers, i \in Instances : RestoreEtcdStopEtcd(p, i)
  \/ \E p \in Callers : RestoreEtcdStopped(p)
  \/ \E p \in Callers : RestoreEtcdRestore(p)
  \/ \E p \in Callers : RestoreEtcdSwap(p)
  \/ \E p \in Callers, i \in Instances : RestoreEtcdStartKubelet(p, i)
  \/ \E p \in Callers : RestoreEtcdStarted(p)
  \/ \E p \in Callers : RestoreEtcdReturn(p)

SpecRestore == InitEtcd /\ [][NextRestore]_vars

\* ---- upgradeCluster (KubernetesAdministrator of a version) ------------------------
StartUpgradeCluster(p, c) ==
  /\ NextCaller(p)
  /\ op' = [op EXCEPT ![p] = "upgradeCluster"]
  /\ pc' = [pc EXCEPT ![p] = "listControlPlanes"]
  /\ clusterId' = [clusterId EXCEPT ![p] = c]
  /\ hist' = [hist EXCEPT ![p].upgradeCluster = TRUE]
  /\ UNCHANGED <<providerVars, kubeVars, mode, paging, adminLocals, nodeId, retry, instance,
                 checked, error, tagLen, controlPlaneNode, held, deprovisioned>>

\* an upgrade that starts with the nodes
firstUpgradeStepRestart == "upgradeCluster"

\* what upgradeCluster does once it has the control-plane nodes:
\* backupPath = await this.backupEtcd(clusterId)
firstUpgradeStep == "backupEtcd"

\* controlPlaneNodes = await Array.fromAsync(this.listNodes({clusterId, role:
\* "control-plane"})), then the call of backupEtcd
UpgradeClusterList(p) ==
  /\ op[p] = "upgradeCluster" /\ pc[p] = "listControlPlanes"
  /\ \/ /\ ThrowEtcd(p, "no_control_plane_found")
        /\ UNCHANGED op
     \/ \E responder \in responders(clusterId[p]) :
          /\ tasks' = [tasks EXCEPT ![p] =
               [i \in Instances |->
                  IF i \in adminListNodes(clusterId[p], "control-plane", responder)
                    THEN [pc |-> "version", tagLen |-> 0] ELSE NoTask]]
          /\ op' = [op EXCEPT ![p] = firstUpgradeStep]
          /\ Goes(p, IF firstUpgradeStep = "backupEtcd" THEN "findControlPlane"
                     ELSE "upgrade")
          /\ UNCHANGED <<clusterId, controlPlaneNode, log, etcdHealth, timer>>
  /\ EtcdFrame

\* backupEtcd returned backupPath: on to the loop over controlPlaneNodes
UpgradeClusterBackedUp(p) ==
  /\ op[p] = "backupEtcd" /\ pc[p] = "return" /\ hist[p].upgradeCluster
  /\ op' = [op EXCEPT ![p] = "upgradeCluster"]
  /\ Goes(p, "upgrade")
  /\ controlPlaneNode' = [controlPlaneNode EXCEPT ![p] = NoInstance]
  /\ UNCHANGED <<clusterId, adminLocals>>
  /\ EtcdFrame

\* the node the for loop is at: the first listed node that is not done
upgrading(p) ==
  LET todo == {i \in listed(p) : tasks[p][i].pc # "fulfilled"}
  IN IF todo = {} THEN NoInstance ELSE CHOOSE m \in todo : \A k \in todo : m <= k

\* a command of the loop on the node it is at: it ran, or it failed and
\* upgradeCluster throws
UpgradeClusterCommand(p, at, command, next) ==
  /\ op[p] = "upgradeCluster" /\ pc[p] = "upgrade"
  /\ upgrading(p) # NoInstance
  /\ TaskAt(p, upgrading(p), at)
  /\ \/ ThrowEtcd(p, "ssh")
     \/ /\ Ran(p, command, upgrading(p))
        /\ TaskGoes(p, upgrading(p), next)
        /\ Goes(p, "upgrade")
        /\ UNCHANGED <<clusterId, controlPlaneNode, etcdHealth, timer>>
  /\ UNCHANGED op
  /\ EtcdFrame

\* executeSSH(node.publicIp, "etcdctl version | ...")
UpgradeClusterVersion(p) == UpgradeClusterCommand(p, "version", "etcdctl version", "restart")

\* a loop that leaves the node once its etcd was restarted
afterRestartUnverified == "fulfilled"

\* what the loop does on the node after the restart: the endpoint health
\* command, awaited before the next iteration
afterRestart == "health"

\* executeSSH(node.publicIp, "systemctl restart etcd")
UpgradeClusterRestart(p) ==
  UpgradeClusterCommand(p, "restart", "restart etcd", afterRestart)

\* executeSSH(node.publicIp, `etcdctl ... endpoint health`)
UpgradeClusterHealth(p) == UpgradeClusterCommand(p, "health", "endpoint health", "fulfilled")

\* the loop is over: etcdHealth = await this.checkEtcdHealth(clusterId)
UpgradeClusterCheck(p) ==
  /\ op[p] = "upgradeCluster" /\ pc[p] = "upgrade"
  /\ upgrading(p) = NoInstance
  /\ op' = [op EXCEPT ![p] = "checkEtcdHealth"]
  /\ Goes(p, "findControlPlane")
  /\ UNCHANGED <<clusterId, controlPlaneNode, adminLocals>>
  /\ EtcdFrame

\* the statuses checkEtcdHealth can return, their healthOutput left out
healthStatuses ==
  {[etcdHealthStatus(healthOutput) EXCEPT !.healthOutput = <<>>] :
     healthOutput \in HealthOutputs}

\* the commands and the parsing of checkEtcdHealth: etcdHealth is its result
UpgradeClusterHealthStatus(p) ==
  /\ op[p] = "checkEtcdHealth" /\ pc[p] = "etcdctl" /\ hist[p].upgradeCluster
  /\ op' = [op EXCEPT ![p] = "upgradeCluster"]
  /\ \/ ThrowEtcd(p, "ssh")
     \/ \E result \in healthStatuses :
          /\ etcdHealth' = [etcdHealth EXCEPT ![p] = result]
          /\ UNCHANGED timer
          /\ Goes(p, "verify")
          /\ controlPlaneNode' = [controlPlaneNode EXCEPT ![p] = NoInstance]
          /\ UNCHANGED <<clusterId, log, tasks>>
  /\ EtcdFrame

\* if (!etcdHealth.healthy) throw new Error(...); return this
UpgradeClusterVerify(p) ==
  /\ op[p] = "upgradeCluster" /\ pc[p] = "verify"
  /\ IF etcdHealth[p].healthy
       THEN /\ Goes(p, "done")
            /\ clusterId' = [clusterId EXCEPT ![p] = NoCluster]
            /\ log' = [log EXCEPT ![p] = <<>>]
            /\ tasks' = [tasks EXCEPT ![p] = NoTasks]
            /\ etcdHealth' = [etcdHealth EXCEPT ![p] = NoHealth]
            /\ UNCHANGED timer
            /\ UNCHANGED controlPlaneNode
       ELSE ThrowEtcd(p, "unhealthy")
  /\ UNCHANGED op
  /\ EtcdFrame

\* upgradeCluster calls, one after the other
NextUpgrade ==
  \/ \E p \in Callers, c \in ClusterIds : Sequenced(p) /\ StartUpgradeCluster(p, c)
  \/ \E p \in Callers : UpgradeClusterList(p)
  \/ \E p \in Callers : EtcdFindControlPlane(p)
  \/ \E p \in Callers : BackupEtcdSave(p)
  \/ \E p \in Callers : BackupEtcdStatus(p)
  \/ \E p \in Callers : UpgradeClusterBackedUp(p)
  \/ \E p \in Callers : UpgradeClusterVersion(p)
  \/ \E p \in Callers : UpgradeClusterRestart(p)
  \/ \E p \in Callers : UpgradeClusterHealth(p)
  \/ \E p \in Callers : UpgradeClusterCheck(p)
  \/ \E p \in Callers : UpgradeClusterHealthStatus(p)
  \/ \E p \in Callers : UpgradeClusterVerify(p)

SpecUpgrade == InitEtcd /\ [][NextUpgrade]_vars

\* ---- getNode ---------------------------------------------------------------------
\* getNode: provider.getInstance(parseInt(options.nodeId)), returned as a Node of
\* options.clusterId
GetNode(p, c, n) ==
  /\ NextCaller(p)
  /\ op' = [op EXCEPT ![p] = "getNode"]
  /\ pc' = [pc EXCEPT ![p] = "done"]
  /\ clusterId' = [clusterId EXCEPT ![p] = c]
  /\ nodeId' = [nodeId EXCEPT ![p] = n]
  /\ instance' = [instance EXCEPT ![p] = [instanceId |-> n, displayName |-> displayName[n]]]
  /\ UNCHANGED <<providerVars, kubeVars, mode, paging, adminLocals, retry, checked, error, tagLen,
                 controlPlaneNode, historyVars>>

\* the calls of SpecAdmin and getNode
NextNodes ==
  \/ NextAdmin
  \/ \E p \in Callers, c \in ClusterIds, n \in Instances : Sequenced(p) /\ GetNode(p, c, n)

SpecNodes == InitAdmin /\ [][NextNodes]_vars

\* ---- listNodes, page by page (paginateFilter) --------------------------------------
\* pageSize: options.pageSize; a size above the pool's stands for the default
PageSizes == 1..MaxPageSize

\* provider.listInstances({page, size}): the instances of the page, in the
\* order of their ids, as they are when the page is requested
listInstances(page, size) ==
  LET first == (page - 1) * size
      rest == NumInstances - first
      n == IF rest < 0 THEN 0 ELSE IF rest < size THEN rest ELSE size
  IN [k \in 1..n |-> [instanceId |-> first + k, displayName |-> displayName[first + k]]]

\* the loop ended after a page as long as the page size as well
endOfPagesInclusive(length, pageSize) == length <= pageSize
\* if (itemsPage.length < pageSize) break
endOfPages(length, pageSize) == length < pageSize

\* listNodes(options) creates the generator: nothing is requested before the
\* consumer asks for the first node
StartListNodes(p, c, size) ==
  /\ NextCaller(p)
  /\ op' = [op EXCEPT ![p] = "listNodes"]
  /\ pc' = [pc EXCEPT ![p] = "request"]
  /\ clusterId' = [clusterId EXCEPT ![p] = c]
  /\ paging' = [paging EXCEPT ![p] =
       [pageSize |-> size, page |-> 1, itemsPage |-> <<>>, requests |-> <<>>]]
  /\ UNCHANGED <<providerVars, kubeVars, mode, adminLocals, nodeId, retry, instance, checked, error,
                 tagLen, controlPlaneNode, historyVars>>

\* itemsPage = await request({page, size: pageSize})
ListNodesRequest(p) ==
  /\ op[p] = "listNodes" /\ pc[p] = "request"
  /\ LET items == listInstances(paging[p].page, paging[p].pageSize)
     IN paging' = [paging EXCEPT
          ![p].itemsPage = items,
          ![p].requests = Append(@, [page |-> paging[p].page, length |-> Len(items)])]
  /\ pc' = [pc EXCEPT ![p] = "items"]
  /\ UNCHANGED <<providerVars, kubeVars, op, mode, adminLocals, clusterId, nodeId, retry, instance,
                 checked, error, tagLen, controlPlaneNode, historyVars>>

\* for (const item of itemsPage) if (await condition(item)) yield item: the
\* generator is suspended at the yield, the consumer holds the node
ListNodesItem(p) ==
  /\ op[p] = "listNodes" /\ pc[p] = "items"
  /\ paging[p].itemsPage # <<>>
  /\ LET item == Head(paging[p].itemsPage)
     IN IF isClusterNode(item.displayName, clusterId[p])
          THEN /\ pc' = [pc EXCEPT ![p] = "yielded"]
               /\ instance' = [instance EXCEPT ![p] = item]
          ELSE UNCHANGED <<pc, instance>>
  /\ paging' = [paging EXCEPT ![p].itemsPage = Tail(@)]
  /\ UNCHANGED <<providerVars, kubeVars, op, mode, adminLocals, clusterId, nodeId, retry,
                 checked, error, tagLen, controlPlaneNode, historyVars>>

\* the consumer asks for the next node: the generator resumes after the yield
ListNodesNext(p) ==
  /\ op[p] = "listNodes" /\ pc[p] = "yielded"
  /\ pc' = [pc EXCEPT ![p] = "items"]
  /\ instance' = [instance EXCEPT ![p] = NoLocal]
  /\ UNCHANGED <<providerVars, kubeVars, op, mode, paging, adminLocals, clusterId, nodeId, retry,
                 checked, error, tagLen, controlPlaneNode, historyVars>>

\* the consumer has the node it looked for (findAsync, firstAsync) and closes
\* the generator
ListNodesReturn(p) ==
  /\ op[p] = "listNodes" /\ pc[p] = "yielded"
  /\ pc' = [pc EXCEPT ![p] = "done"]
  /\ instance' = [instance EXCEPT ![p] = NoLocal]
  /\ paging' = [paging EXCEPT ![p] = NoPaging]
  /\ UNCHANGED <<providerVars, kubeVars, op, mode, adminLocals, retry,
                 checked, error, tagLen, controlPlaneNode, historyVars>>
  /\ Arguments(p)

\* the items of the page are through: if (itemsPage.length < pageSize) break,
\* else page++ and the next request
ListNodesPageEnd(p) ==
  /\ op[p] = "listNodes" /\ pc[p] = "items"
  /\ paging[p].itemsPage = <<>>
  /\ LET fetched == paging[p].requests[Len(paging[p].requests)]
     IN IF endOfPages(fetched.length, paging[p].pageSize)
          THEN /\ pc' = [pc EXCEPT ![p] = "done"]
               /\ paging' = [paging EXCEPT ![p] = NoPaging]
          ELSE /\ pc' = [pc EXCEPT ![p] = "request"]
               /\ paging' = [paging EXCEPT ![p].page = @ + 1]
  /\ UNCHANGED <<providerVars, kubeVars, op, mode, adminLocals, retry, instance,
                 checked, error, tagLen, controlPlaneNode, historyVars>>
  /\ Arguments(p)

\* listNodes calls, one after the other, on existing clusters
NextList ==
  \/ \E p \in Callers, c \in ClusterIds, size \in PageSizes :
       Sequenced(p) /\ StartListNodes(p, c, size)
  \/ \E p \in Callers : ListNodesRequest(p)
  \/ \E p \in Callers : ListNodesItem(p)
  \/ \E p \in Callers : ListNodesNext(p)
  \/ \E p \in Callers : ListNodesReturn(p)
  \/ \E p \in Callers : ListNodesPageEnd(p)

SpecList == InitAdmin /\ [][NextList]_vars

\* the same calls, overlapping
NextAdminRace ==
  \/ \E p \in Callers, c \in ClusterIds, n \in Instances : StartRemoveNode(p, c, n)
  \/ \E p \in Callers : RemoveNodeFind(p)
  \/ \E p \in Callers : RemoveNodeFindControlPlane(p)
  \/ \E p \in Callers : RemoveNodeDrain(p)
  \/ \E p \in Callers : RemoveNodeDelete(p)
  \/ \E p \in Callers : RemoveNodeReset(p)
  \/ \E p \in Callers, c \in ClusterIds, n \in Instances : StartDeprovisionNode(p, c, n)
  \/ \E p \in Callers : UnassignTag(p)
  \/ \E p \in Callers : DeleteTagAssignment(p)
  \/ \E p \in Callers : DeleteTag(p)
  \/ \E p \in Callers : ResetInstanceClear(p)
  \/ \E p \in Callers : ResetInstanceStop(p)

SpecAdminRace == InitAdmin /\ [][NextAdminRace]_vars

\* ---- provider primitives (ContaboProvider) and waitFor ----------------------------
\* The calls of the provider that wait for the instance: here the provider may
\* answer a request with "resource locked" (423) or with another error, and an
\* instance that is being created, installed or restarted gets ready when the
\* provider is done with it, if ever.
Primitives ==
  {"createInstance", "reinstallInstance", "startInstance", "stopInstance",
   "assignPrivateNetwork"}

\* the pool: instances that exist, running or stopped, and ids not yet in use
InitProvider ==
  /\ displayName = [i \in Instances |-> <<>>]
  /\ status \in [Instances -> {"absent", "running", "stopped"}]
  /\ productId = [i \in Instances |-> RequestedProduct]
  /\ cancelDate = [i \in Instances |-> FALSE]
  /\ errorMessage = [i \in Instances |-> FALSE]
  /\ sshKeys = [i \in Instances |-> NoCluster]
  /\ tags = {} /\ tagAssignments = {} /\ secrets = {} /\ inflight = {}
  /\ kubeNode = [i \in Instances |-> NoCluster]
  /\ kubeRoles = [i \in Instances |-> {}]
  /\ drained = [i \in Instances |-> FALSE]
  /\ adminConf = [i \in Instances |-> NoCluster]
  /\ InitCallers
  /\ \E i \in Instances : status[i] = "absent"
  /\ \E i \in Instances : status[i] # "absent"

\* interval: 5000
interval == 5000

\* timeout: 60000 of reinstallInstance, timeout: 20000 of the others
timeout(name) == IF name = "reinstallInstance" THEN 60000 ELSE 20000

\* performance.now() - start of the waitFor in progress: the time slept; the
\* polls themselves take a moment more
elapsed(p) == timer[p].now - timer[p].start

\* a provider call that threw
ThrowProvider(p, e) ==
  /\ Throw(p, e)
  /\ nodeId' = [nodeId EXCEPT ![p] = NoInstance]
  /\ timer' = [timer EXCEPT ![p] = NoTimer]

\* a provider call that returned
ReturnProvider(p) ==
  /\ pc' = [pc EXCEPT ![p] = "done"]
  /\ nodeId' = [nodeId EXCEPT ![p] = NoInstance]
  /\ timer' = [timer EXCEPT ![p] = NoTimer]
  /\ UNCHANGED <<error, retry, instance, checked, tagLen>>

\* it goes on to position next; since is the `start` of the waitFor it is in
Waits(p, next, since) ==
  /\ pc' = [pc EXCEPT ![p] = next]
  /\ timer' = [timer EXCEPT ![p].start = since]
  /\ UNCHANGED <<nodeId, error, retry, instance, checked, tagLen>>

ProviderFrame ==
  UNCHANGED <<displayName, productId, cancelDate, errorMessage, sshKeys, tags,
              tagAssignments, secrets, inflight, kubeVars, op, mode, paging, log, tasks,
              etcdHealth, clusterId, controlPlaneNode, historyVars>>

\* waitFor, when condition() returned false:
\*   if (performance.now() - start > timeout) throw new Error(errorMessage);
\*   await new Promise((resolve) => setTimeout(resolve, interval));
waitForFalse(p, sleep) ==
  IF elapsed(p) >= timeout(op[p])
    THEN ThrowProvider(p, "timed out")
    ELSE Waits(p, sleep, timer[p].start)

\* the setTimeout of waitFor is over: the next condition()
WaitForSleep(p, sleep, poll) ==
  /\ op[p] \in Primitives \ {"createInstance"} /\ pc[p] = sleep
  /\ pc' = [pc EXCEPT ![p] = poll]
  /\ timer' = [timer EXCEPT ![p].now = @ + interval]
  /\ UNCHANGED <<status, nodeId, error, retry, instance, checked, tagLen>>
  /\ ProviderFrame

\* what condition() of startInstance, stopInstance and restartInstance does
\* with the provider's answer "resource locked" (423)
lockedRethrown == "throw"
locked == "false"

\* const result = await condition() of startInstance, stopInstance and
\* restartInstance: the request, answered with success, with 423 or with another
\* error
request(p, after, sleep, next) ==
  \/ /\ status' = [status EXCEPT ![nodeId[p]] = after]
     /\ IF next = "return" THEN ReturnProvider(p) ELSE Waits(p, next, timer[p].now)
  \/ /\ IF locked = "false" THEN waitForFalse(p, sleep) ELSE ThrowProvider(p, "423")
     /\ UNCHANGED status
  \/ /\ ThrowProvider(p, "provider")
     /\ UNCHANGED status

StartStartInstance(p, i) ==
  /\ NextCaller(p)
  /\ status[i] # "absent"
  /\ op' = [op EXCEPT ![p] = "startInstance"]
  /\ pc' = [pc EXCEPT ![p] = "condition"]
  /\ nodeId' = [nodeId EXCEPT ![p] = i]
  /\ UNCHANGED <<providerVars, kubeVars, mode, paging, adminLocals, clusterId, retry, instance,
                 checked, error, tagLen, controlPlaneNode, historyVars>>

\* cntb start instance
StartInstanceStart(p) ==
  /\ op[p] = "startInstance" /\ pc[p] = "condition"
  /\ request(p, "running", "sleep", "return")
  /\ ProviderFrame

StartStopInstance(p, i) ==
  /\ NextCaller(p)
  /\ status[i] # "absent"
  /\ op' = [op EXCEPT ![p] = "stopInstance"]
  /\ pc' = [pc EXCEPT ![p] = "condition"]
  /\ nodeId' = [nodeId EXCEPT ![p] = i]
  /\ UNCHANGED <<providerVars, kubeVars, mode, paging, adminLocals, clusterId, retry, instance,
                 checked, error, tagLen, controlPlaneNode, historyVars>>

\* cntb stop instance
StopInstanceStop(p) ==
  /\ op[p] = "stopInstance" /\ pc[p] = "condition"
  /\ request(p, "stopped", "sleep", "return")
  /\ ProviderFrame

StartCreateInstance(p) ==
  /\ NextCaller(p)
  /\ op' = [op EXCEPT ![p] = "createInstance"]
  /\ pc' = [pc EXCEPT ![p] = "exec"]
  /\ UNCHANGED <<providerVars, kubeVars, mode, paging, adminLocals, clusterId, nodeId, retry,
                 instance, checked, error, tagLen, controlPlaneNode, historyVars>>

\* cntb create instance: the provider answers with the id of the new instance
CreateInstanceExec(p) ==
  /\ op[p] = "createInstance" /\ pc[p] = "exec"
  /\ \E i \in Instances :
       /\ status[i] = "absent"
       /\ status' = [status EXCEPT ![i] = "provisioning"]
       /\ nodeId' = [nodeId EXCEPT ![p] = i]
  /\ pc' = [pc EXCEPT ![p] = "getInstance"]
  /\ UNCHANGED <<timer, error, retry, instance, checked, tagLen>>
  /\ ProviderFrame

\* while (true) { instance = await this.getInstance(instanceId);
\*                if (instance.status === "running") break; ...
CreateInstanceGetInstance(p) ==
  /\ op[p] = "createInstance" /\ pc[p] = "getInstance"
  /\ IF status[nodeId[p]] = "running"
       THEN ReturnProvider(p)
       ELSE /\ pc' = [pc EXCEPT ![p] = "sleep"]
            /\ UNCHANGED <<timer, nodeId, error, retry, instance, checked, tagLen>>
  /\ UNCHANGED status
  /\ ProviderFrame

\* ... await new Promise((resolve) => setTimeout(resolve, 5000)); }
CreateInstanceSleep(p) ==
  /\ op[p] = "createInstance" /\ pc[p] = "sleep"
  /\ pc' = [pc EXCEPT ![p] = "getInstance"]
  /\ UNCHANGED <<status, timer, nodeId, error, retry, instance, checked, tagLen>>
  /\ ProviderFrame

StartReinstallInstance(p, i) ==
  /\ NextCaller(p)
  /\ status[i] # "absent"
  /\ op' = [op EXCEPT ![p] = "reinstallInstance"]
  /\ pc' = [pc EXCEPT ![p] = "exec"]
  /\ nodeId' = [nodeId EXCEPT ![p] = i]
  /\ UNCHANGED <<providerVars, kubeVars, mode, paging, adminLocals, clusterId, retry, instance,
                 checked, error, tagLen, controlPlaneNode, historyVars>>

\* cntb reinstall instance, then waitFor begins
ReinstallInstanceExec(p) ==
  /\ op[p] = "reinstallInstance" /\ pc[p] = "exec"
  /\ status' = [status EXCEPT ![nodeId[p]] = "installing"]
  /\ Waits(p, "condition", timer[p].now)
  /\ ProviderFrame

\* condition() of reinstallInstance: switch (instance.status)
ReinstallInstanceCondition(p) ==
  /\ op[p] = "reinstallInstance" /\ pc[p] = "condition"
  /\ CASE status[nodeId[p]] = "installing" -> waitForFalse(p, "sleep")
       [] status[nodeId[p]] = "stopped" ->
            \* await this.startInstance(instanceId): its waitFor begins
            /\ pc' = [pc EXCEPT ![p] = "startInstance"]
            /\ timer' = [timer EXCEPT ![p].outer = timer[p].start,
                                      ![p].start = timer[p].now]
            /\ UNCHANGED <<nodeId, error, retry, instance, checked, tagLen>>
       [] status[nodeId[p]] = "running" -> ReturnProvider(p)
       [] OTHER -> ThrowProvider(p, "failed to reinstall")
  /\ UNCHANGED status
  /\ ProviderFrame

\* the startInstance that condition() of reinstallInstance awaits: cntb start
\* instance; when it returned, condition() returns false
ReinstallInstanceStart(p) ==
  /\ op[p] = "reinstallInstance" /\ pc[p] = "startInstance"
  /\ \/ /\ status' = [status EXCEPT ![nodeId[p]] = "running"]
        /\ IF timer[p].now - timer[p].outer >= timeout(op[p])
             THEN ThrowProvider(p, "timed out")
             ELSE Waits(p, "sleep", timer[p].outer)
     \/ /\ IF locked = "false"
             THEN IF elapsed(p) >= timeout("startInstance")
                    THEN ThrowProvider(p, "timed out")
                    ELSE Waits(p, "startSleep", timer[p].start)
             ELSE ThrowProvider(p, "423")
        /\ UNCHANGED status
     \/ /\ ThrowProvider(p, "provider")
        /\ UNCHANGED status
  /\ ProviderFrame

StartAssignPrivateNetwork(p, i) ==
  /\ NextCaller(p)
  /\ status[i] # "absent"
  /\ op' = [op EXCEPT ![p] = "assignPrivateNetwork"]
  /\ pc' = [pc EXCEPT ![p] = "condition"]
  /\ nodeId' = [nodeId EXCEPT ![p] = i]
  /\ UNCHANGED <<providerVars, kubeVars, mode, paging, adminLocals, clusterId, retry, instance,
                 checked, error, tagLen, controlPlaneNode, historyVars>>

\* condition() of assignPrivateNetwork, after cntb assign privateNetwork: the
\* network read lists the instance, or does not yet, or the provider answers
\* with 423 or with another error
AssignPrivateNetworkCondition(p) ==
  /\ op[p] = "assignPrivateNetwork" /\ pc[p] = "condition"
  /\ \/ Waits(p, "restart", timer[p].now)
     \/ waitForFalse(p, "sleep")
     \/ ThrowProvider(p, "provider")
  /\ UNCHANGED status
  /\ ProviderFrame

\* restartInstance: cntb restart instance
AssignPrivateNetworkRestart(p) ==
  /\ op[p] = "assignPrivateNetwork" /\ pc[p] = "restart"
  /\ request(p, "restarting", "restartSleep", "running")
  /\ ProviderFrame

\* restartInstance: instance.status === "running"
AssignPrivateNetworkRunning(p) ==
  /\ op[p] = "assignPrivateNetwork" /\ pc[p] = "running"
  /\ IF status[nodeId[p]] = "running"
       THEN ReturnProvider(p)
       ELSE waitForFalse(p, "runningSleep")
  /\ UNCHANGED status
  /\ ProviderFrame

\* the provider is done with an instance it created, installed or restarted
ProviderReady(i) ==
  /\ status[i] \in {"provisioning", "installing", "restarting"}
  /\ \E after \in {"running", "error"} \cup
                  (IF status[i] = "installing" THEN {"stopped"} ELSE {}) :
       status' = [status EXCEPT ![i] = after]
  /\ UNCHANGED <<displayName, productId, cancelDate, errorMessage, sshKeys, tags,
                 tagAssignments, secrets, inflight, callerVars, kubeVars, historyVars>>

\* the steps of the provider call of caller p
ProviderCall(p) ==
  \/ StartInstanceStart(p)
  \/ StopInstanceStop(p)
  \/ WaitForSleep(p, "sleep", "condition")
  \/ CreateInstanceExec(p)
  \/ CreateInstanceGetInstance(p)
  \/ CreateInstanceSleep(p)
  \/ ReinstallInstanceExec(p)
  \/ ReinstallInstanceCondition(p)
  \/ ReinstallInstanceStart(p)
  \/ WaitForSleep(p, "startSleep", "startInstance")
  \/ AssignPrivateNetworkCondition(p)
  \/ AssignPrivateNetworkRestart(p)
  \/ WaitForSleep(p, "restartSleep", "restart")
  \/ AssignPrivateNetworkRunning(p)
  \/ WaitForSleep(p, "runningSleep", "running")

NextProvider ==
  \/ \E p \in Callers :
       \/ Sequenced(p) /\ StartCreateInstance(p)
       \/ \E i \in Instances :
            \/ Sequenced(p) /\ StartStartInstance(p, i)
            \/ Sequenced(p) /\ StartStopInstance(p, i)
            \/ Sequenced(p) /\ StartReinstallInstance(p, i)
            \/ Sequenced(p) /\ StartAssignPrivateNetwork(p, i)
       \/ ProviderCall(p)
  \/ \E i \in Instances : ProviderReady(i)

SpecProvider == InitProvider /\ [][NextProvider]_vars

\* a provider call in progress takes its next step: the caller awaits it
SpecProviderFair == SpecProvider /\ \A p \in Callers : WF_vars(ProviderCall(p))

\* the calls of startInstance and stopInstance, one after the other
NextStartStop ==
  \/ \E p \in Callers, i \in Instances : Sequenced(p) /\ StartStartInstance(p, i)
  \/ \E p \in Callers, i \in Instances : Sequenced(p) /\ StartStopInstance(p, i)
  \/ \E p \in Callers : StartInstanceStart(p)
  \/ \E p \in Callers : StopInstanceStop(p)
  \/ \E p \in Callers : WaitForSleep(p, "sleep", "condition")

SpecStartStop == InitProvider /\ [][NextStartStop]_vars

\* ---- executeSSH and retry (utils) -------------------------------------------------
\* An ssh command on a host: the child process connects, runs the command and
\* exits, each of which is up to the host; what the caller's side does by itself
\* is to give up connecting when ConnectTimeout is set, and to sleep between
\* attempts.
\* options of executeSSH: none as initCluster and the other operations of the
\* administrator call it, { timeout: 10000, retries: 6 } as the checks of the
\* provisioner do
SSHOptions == {"none", "timeout and retries"}
sshOptions(given) ==
  IF given = "none" THEN [timeout |-> 0, retries |-> 0]
                    ELSE [timeout |-> 10000, retries |-> 6]

\* maxRetries: options?.retries ?? 0
maxRetries(p) == sshOptions(mode[p]).retries

\* timeout: options?.timeout ? options?.timeout * ((options?.retries ?? 0) + 1) : Infinity
withinRetryTimeout(p) ==
  \/ sshOptions(mode[p]).timeout = 0
  \/ elapsed(p) <= sshOptions(mode[p]).timeout * (sshOptions(mode[p]).retries + 1)

StartExecuteSSH(p, i, given) ==
  /\ NextCaller(p)
  /\ op' = [op EXCEPT ![p] = "executeSSH"]
  /\ mode' = [mode EXCEPT ![p] = given]
  /\ pc' = [pc EXCEPT ![p] = "connecting"]
  /\ nodeId' = [nodeId EXCEPT ![p] = i]
  /\ UNCHANGED <<providerVars, kubeVars, paging, adminLocals, clusterId, retry, instance,
                 checked, error, tagLen, controlPlaneNode, historyVars>>

SSHFrame ==
  UNCHANGED <<providerVars, kubeVars, op, paging, log, tasks, etcdHealth, clusterId,
              instance, checked, tagLen, controlPlaneNode, historyVars>>

\* the callback of execFile got an error: reject(error), and the catch of retry
\*   if (retries >= maxRetries || performance.now() - start > timeout) throw error;
\*   retries++; await new Promise((resolve) => setTimeout(resolve, interval));
reject(p, now) ==
  IF retry[p] >= maxRetries(p) \/ ~withinRetryTimeout(p)
    THEN /\ pc' = [pc EXCEPT ![p] = "failed"]
         /\ error' = [error EXCEPT ![p] = "Failed to execute command"]
         /\ retry' = [retry EXCEPT ![p] = 0]
         /\ mode' = [mode EXCEPT ![p] = "none"]
         /\ nodeId' = [nodeId EXCEPT ![p] = NoInstance]
         /\ timer' = [timer EXCEPT ![p] = NoTimer]
    ELSE /\ pc' = [pc EXCEPT ![p] = "sleep"]
         /\ retry' = [retry EXCEPT ![p] = @ + 1]
         /\ timer' = [timer EXCEPT ![p].now = now]
         /\ UNCHANGED <<error, mode, nodeId>>

\* the host accepted the connection: the command runs
ExecuteSSHConnected(p) ==
  /\ op[p] = "executeSSH" /\ pc[p] = "connecting"
  /\ pc' = [pc EXCEPT ![p] = "running"]
  /\ UNCHANGED <<error, retry, mode, nodeId, timer>>
  /\ SSHFrame

\* the host refused the connection: ssh exits with an error
ExecuteSSHRefused(p) ==
  /\ op[p] = "executeSSH" /\ pc[p] = "connecting"
  /\ reject(p, timer[p].now)
  /\ SSHFrame

\* -o ConnectTimeout=${options.timeout / 1000}, if options?.timeout: ssh gives
\* up connecting and exits with an error
ExecuteSSHConnectTimeout(p) ==
  /\ op[p] = "executeSSH" /\ pc[p] = "connecting"
  /\ sshOptions(mode[p]).timeout # 0
  /\ reject(p, timer[p].now + sshOptions(mode[p]).timeout)
  /\ SSHFrame

\* the command ended on the host: resolve([stdout, stderr]), or reject(error)
ExecuteSSHExit(p) ==
  /\ op[p] = "executeSSH" /\ pc[p] = "running"
  /\ \/ /\ pc' = [pc EXCEPT ![p] = "done"]
        /\ retry' = [retry EXCEPT ![p] = 0]
        /\ mode' = [mode EXCEPT ![p] = "none"]
        /\ nodeId' = [nodeId EXCEPT ![p] = NoInstance]
        /\ timer' = [timer EXCEPT ![p] = NoTimer]
        /\ UNCHANGED error
     \/ reject(p, timer[p].now)
  /\ SSHFrame

\* the setTimeout of retry is over: interval is options?.timeout; the next fn()
ExecuteSSHSleep(p) ==
  /\ op[p] = "executeSSH" /\ pc[p] = "sleep"
  /\ pc' = [pc EXCEPT ![p] = "connecting"]
  /\ timer' = [timer EXCEPT ![p].now = @ + sshOptions(mode[p]).timeout]
  /\ UNCHANGED <<error, retry, mode, nodeId>>
  /\ SSHFrame

NextSSH ==
  \/ \E p \in Callers, i \in Instances, given \in SSHOptions :
       Sequenced(p) /\ StartExecuteSSH(p, i, given)
  \/ \E p \in Callers : ExecuteSSHConnected(p)
  \/ \E p \in Callers : ExecuteSSHRefused(p)
  \/ \E p \in Callers : ExecuteSSHConnectTimeout(p)
  \/ \E p \in Callers : ExecuteSSHExit(p)
  \/ \E p \in Callers : ExecuteSSHSleep(p)

\* what is the caller's own comes about: the ConnectTimeout of ssh, the
\* setTimeout of retry; what the host does, and when, is up to the host
SpecSSH ==
  /\ Init /\ [][NextSSH]_vars
  /\ \A p \in Callers : WF_vars(ExecuteSSHConnectTimeout(p))
  /\ \A p \in Callers : WF_vars(ExecuteSSHSleep(p))

TypeOK ==
  /\ \A p \in Callers : retry[p] \in 0..RetryLimit

\* ---- properties ---------------------------------------------------------------
Returned(p) == op[p] = "provisionNode" /\ pc[p] = "done"

\* C1: of two provisionNode calls that ran concurrently and both picked the
\* same unclaimed instance as their candidate, at most one returns a node
\* built from that instance.
C1_OneWinner ==
  \A p \in Callers : \A q \in hist[p].rivals :
    ~(/\ Returned(p) /\ Returned(q)
      /\ instance[p].instanceId = instance[q].instanceId)

\* C2: a provisionNode call whose display-name write was overwritten by another
\* claimant does not go on with the contested instance: past the read-back, the
\* display name it read is the one it wrote.
C2_CollisionDetected ==
  \A p \in Callers :
    (op[p] = "provisionNode" /\ pc[p] \in {"assignTag", "checkNodeProvisioning"})
      => instance[p].displayName = displayNameOf(instance[p].instanceId, clusterId[p])

\* C3: an instance returned by provisionNode for cluster X, and not deprovisioned
\* since, is never at the same time claimed by a cluster Y # X, neither by its
\* display name nor by a provisionNode call for Y having returned it.
C3_NoCrossClusterClaim ==
  \A h \in held : \A y \in ClusterIds \ {h[1]} :
    /\ displayName[h[2]] # displayNameOf(h[2], y)
    /\ <<y, h[2]>> \notin held

\* C4: a node returned by provisionNode passed, in the attempt that produced it,
\* the ping check, the ssh check and the reachability check towards every peer
\* listed for the cluster.
C4_ReturnedNodeVerified ==
  \A p \in Callers :
    Returned(p) =>
      /\ checked[p].ping
      /\ checked[p].ssh
      /\ checked[p].unreachable \cap checked[p].peerNodes = {}

\* a node was returned after its reachability towards a peer was checked
C4_Witness ==
  \E p \in Callers : Returned(p) /\ checked[p].peerNodes # {}

\* C5: provisionNode makes at most 3 attempts (the attempt in progress is
\* number retry + 1), and the third verification failure ends the call with an
\* error instead of a fourth attempt or a node.
C5_AtMostThreeAttempts ==
  [][\A p \in Callers :
       op'[p] = "provisionNode" =>
         /\ retry'[p] + 1 <= RetryLimit
         /\ (op[p] = "provisionNode" /\ pc[p] = "stopInstance" /\ retry[p] = RetryLimit - 1
               /\ pc'[p] # pc[p])
              => (pc'[p] = "failed" /\ error'[p] = "retries")]_vars

\* a provisionNode call failed after its third verification failure
C5_Witness ==
  \E p \in Callers : op[p] = "provisionNode" /\ pc[p] = "failed" /\ error[p] = "retries"

\* C6: after a verification failure on instance i, the next attempt of the call
\* picks a candidate other than i.
C6_RetryOnDifferentInstance ==
  [][\A p \in Callers :
       (/\ op[p] = "provisionNode" /\ pc[p] = "ensureInstance" /\ retry[p] > 0
        /\ pc'[p] = "setDisplayName")
         => instance'[p].instanceId # instance[p].instanceId]_vars

\* C7: when the failure path of an attempt is left (for the next attempt or for
\* the final error), the failure reason written for the instance has reached
\* its display name and the display name carries no marker of the cluster.
C7_FailureRecordedAndReleased ==
  [][\A p \in Callers :
       (op[p] = "provisionNode" /\ pc[p] = "stopInstance" /\ pc'[p] # pc[p])
         => /\ \A w \in inflight' : w.instanceId # instance[p].instanceId
            /\ ~isClusterNode(displayName'[instance[p].instanceId], clusterId[p])]_vars

\* C8: a deprovisionNode call that repeats a completed deprovisionNode call on
\* the same node raises no error, and its reset leaves the display name empty.
C8_SecondDeprovisionIsNoop ==
  [][\A p \in Callers :
       (op'[p] = "deprovisionNode" /\ hist'[p].repeated) =>
         /\ pc'[p] # "failed"
         /\ error'[p] = "none"
         /\ (pc[p] # "done" /\ pc'[p] = "done") => displayName'[nodeId[p]] = <<>>]_vars

\* the repeated deprovisionNode call has returned
C8_Witness ==
  \E p \in Callers :
    op[p] = "deprovisionNode" /\ hist[p].repeated /\ pc[p] = "done"

\* C9: when provisionNode for cluster X returns node n, listNodes(X) produces n
\* and listNodes(Y) does not, for every other cluster id Y.
C9_ListedForOwnClusterOnly ==
  [][\A p \in Callers :
       (op[p] = "provisionNode" /\ pc[p] = "checkNodeProvisioning" /\ pc'[p] = "done")
         => /\ instance[p].instanceId \in listNodes(displayName', clusterId[p])
            /\ \A y \in ClusterIds \ {clusterId[p]} :
                 instance[p].instanceId \notin listNodes(displayName', y)]_vars

\* C10: a removeNode call that began on the only control-plane node of its
\* cluster never gets past a failing drain command, and none of its steps
\* changes the state of a node: Kubernetes membership, roles, drain, admin.conf,
\* display names, status, tags and tag assignments.
C10_SoleControlPlaneNotRemoved ==
  [][\A p \in Callers :
       (op[p] = "removeNode" /\ hist[p].sole /\ op'[p] = "removeNode" /\ hist'[p].sole)
         => /\ pc'[p] \in {"findNode", "findControlPlane", "drain", "failed"}
            /\ pc'[p] # pc[p] =>
                 UNCHANGED <<kubeVars, displayName, status, tags, tagAssignments>>]_vars

\* removeNode on the only control-plane node failed for lack of another one
C10_Witness ==
  \E p \in Callers :
    /\ op[p] = "removeNode" /\ hist[p].sole
    /\ pc[p] = "failed" /\ error[p] = "only_control_plane"

\* C11: when a removeNode call that took a node of its cluster out of it
\* returns without error, the cluster still has a control-plane node, also
\* when removeNode calls on two control-plane nodes overlap (the nodes leave
\* their clusters through removeNode only).
C11_ControlPlaneSurvives ==
  [][\A p \in Callers : \A c \in ClusterIds :
       (/\ \A q \in Callers : op[q] \in {"none", "removeNode"}
        /\ op[p] = "removeNode" /\ hist[p].released /\ clusterId[p] = c
        /\ pc[p] # "done" /\ pc'[p] = "done")
         => controlPlaneNodes(c)' # {}]_vars

\* C12: when the scan of ensureInstance finds no unclaimed instance matching
\* the request, provisionNode ends there with the no-capacity error, whatever
\* the attempt, and the step leaves every instance as it was.
C12_NoCapacityFailsUntouched ==
  [][\A p \in Callers :
       (/\ op[p] = "provisionNode" /\ pc[p] = "ensureInstance" /\ pc'[p] # pc[p]
        /\ paginateFind(1, clusterId[p], displayName, sshKeys, status).found = NoInstance)
         => /\ pc'[p] = "failed" /\ error'[p] = "no_capacity"
            /\ UNCHANGED <<displayName, status, productId, cancelDate, errorMessage,
                           sshKeys>>]_vars

\* C13: when the scan of ensureInstance finds no unclaimed instance matching
\* the request of a provisionNode call with mode "auto", the call does not fail
\* there: it goes on with an instance to claim.
C13_AutoModeCreatesInstance ==
  [][\A p \in Callers :
       (/\ op[p] = "provisionNode" /\ mode[p] = "auto"
        /\ pc[p] = "ensureInstance" /\ pc'[p] # pc[p]
        /\ paginateFind(1, clusterId[p], displayName, sshKeys, status).found = NoInstance)
         => /\ pc'[p] = "setDisplayName"
            /\ instance'[p].instanceId # NoInstance]_vars

\* C14: assignTag on an instance that already holds the assignment of the
\* cluster's tag raises no error and leaves the assignments as they were.
C14_AssignTagIdempotent ==
  [][\A p \in Callers :
       (/\ op[p] = "provisionNode" /\ pc[p] = "assignTag" /\ pc'[p] # pc[p]
        /\ <<clusterId[p], instance[p].instanceId>> \in tagAssignments)
         => /\ pc'[p] # "failed"
            /\ tagAssignments' = tagAssignments]_vars

\* C15: a getNode(clusterId, nodeId) call that returned a Node read an instance
\* whose display name is the membership marker of clusterId; for any other
\* instance the call fails.
C15_GetNodeChecksMembership ==
  \A p \in Callers :
    (op[p] = "getNode" /\ pc[p] = "done")
      => instance[p].displayName = displayNameOf(nodeId[p], clusterId[p])

\* C16: whenever no call is in progress, every existing cluster=<id> tag has
\* at least one assignment.
C16_NoTagWithoutAssignment ==
  (\A p \in Callers : Finished(p))
    => \A c \in tags : \E a \in tagAssignments : a[1] = c

\* C17: when a step clears the display name of an instance that carried the
\* marker of cluster c, the instance holds no assignment of c's tag after the
\* step.
C17_UnassignedBeforeReset ==
  [][\A i \in Instances : \A c \in ClusterIds :
       (displayName[i] = displayNameOf(i, c) /\ displayName'[i] = <<>>)
         => <<c, i>> \notin tagAssignments']_vars

C19_PagesUntilFirstShortOne ==
  [][\A p \in Callers :
       /\ op'[p] = "listNodes" =>
            LET r == paging'[p].requests
            IN \A k \in 1..Len(r) :
                 /\ r[k].page = k
                 /\ k < Len(r) => r[k].length = paging'[p].pageSize
       /\ (op[p] = "listNodes" /\ Len(paging'[p].requests) > Len(paging[p].requests))
            => (pc[p] = "request" /\ paging[p].itemsPage = <<>>)
       /\ (/\ op[p] = "listNodes" /\ pc[p] = "items" /\ paging[p].itemsPage = <<>>
           /\ pc'[p] # pc[p])
            => LET fetched == paging[p].requests[Len(paging[p].requests)]
               IN IF fetched.length < paging[p].pageSize
                    THEN pc'[p] = "done"
                    ELSE /\ pc'[p] = "request"
                         /\ paging'[p].page = fetched.page + 1]_vars

\* a short page was fetched after a full one
C19_Witness ==
  \E p \in Callers :
    /\ op[p] = "listNodes" /\ pc[p] = "items"
    /\ Len(paging[p].requests) >= 2
    /\ paging[p].requests[1].length = paging[p].pageSize
    /\ paging[p].requests[Len(paging[p].requests)].length < paging[p].pageSize

\* C20: when initCluster returns the id of the cluster it created, listNodes of
\* that id yields exactly one node.
C20_InitClusterClaimsOne ==
  [][\A p \in Callers : \A c \in ClusterIds :
       (/\ op[p] = "initCluster" /\ pc[p] = "return" /\ clusterId[p] = c
        /\ pc'[p] = "done")
         => Cardinality(listNodes(displayName', c)) = 1]_vars

\* C21: initCluster returns only after the manifest of the pod-network add-on
\* was applied on the control-plane node, and it was applied after kubeadm init
\* succeeded there.
C21_PodNetworkBeforeReturn ==
  [][\A p \in Callers :
       (op[p] = "initCluster" /\ pc[p] = "return" /\ pc'[p] = "done")
         => \E j, k \in 1..Len(log[p]) :
              /\ j < k
              /\ log[p][j] = <<"kubeadm init", instance[p].instanceId>>
              /\ log[p][k] = <<"kubectl apply", instance[p].instanceId>>]_vars

C23_ResetFailureStillDeprovisions ==
  [][\A p \in Callers : \A n \in Instances :
       (/\ op[p] = "removeNode" /\ nodeId[p] = n
        /\ pc[p] \in {"resetNode", "unassignTag", "deleteTagAssignment", "deleteTag",
                      "resetInstance", "stopInstance"})
         => /\ pc'[p] # "failed"
            /\ pc[p] = "resetNode" => pc'[p] \in {"resetNode", "unassignTag"}
            /\ pc'[p] = "done" => displayName'[n] = <<>> /\ status'[n] = "stopped"]_vars

\* the reset of a control-plane node failed (its admin.conf is still there) and
\* removeNode has released its instance
C23_Witness ==
  \E p \in Callers :
    /\ op[p] = "removeNode" /\ pc[p] = "stopInstance"
    /\ adminConf[nodeId[p]] # NoCluster
    /\ displayName[nodeId[p]] = <<>>
\* C24: deleteCluster starts the cleanup of every node listed for the cluster;
\* the failure of one node's cleanup ends that node's cleanup only and leaves
\* the others as they are; deleteCluster never raises, and it returns once
\* every cleanup has ended.
C24_EveryNodeAttempted ==
  [][\A p \in Callers : \A c \in ClusterIds :
       (op[p] = "deleteCluster" /\ clusterId[p] = c) =>
         /\ pc'[p] # "failed"
         /\ (pc[p] = "listNodes" /\ pc'[p] = "allSettled")
              => \A i \in listNodes(displayName, c) : tasks'[p][i].pc = "reset"
         /\ \A i \in Instances :
              (tasks[p][i].pc = "reset" /\ tasks'[p][i].pc = "caught")
                => \A j \in Instances \ {i} : tasks'[p][j] = tasks[p][j]
         /\ pc'[p] = "done"
              => \A i \in Instances : tasks[p][i].pc \in {"none", "caught", "fulfilled"}]_vars

\* the cleanup of one node failed and the cleanup of another has deprovisioned
\* its node since
C24_Witness ==
  \E p \in Callers : \E i, j \in Instances :
    /\ op[p] = "deleteCluster" /\ pc[p] = "allSettled"
    /\ i < j
    /\ tasks[p][i].pc = "caught"
    /\ tasks[p][j].pc = "fulfilled"

\* C25: after deleteCluster has completed, listNodes of the cluster yields no
\* node.
C25_NoNodeAfterDeleteCluster ==
  [][\A p \in Callers : \A c \in ClusterIds :
       (op[p] = "deleteCluster" /\ clusterId[p] = c /\ pc'[p] = "done")
         => listNodes(displayName', c) = {}]_vars
\* C26: in the status checkEtcdHealth returns, totalEndpoints is the number of
\* endpoint lines of the health output (the lines that are not blank),
\* healthyEndpoints the number of lines that contain "is healthy", and healthy
\* is false whenever healthyEndpoints is below totalEndpoints.
C26_HealthCounts ==
  \A p \in Callers :
    (op[p] = "checkEtcdHealth" /\ pc[p] = "return") =>
      LET out == etcdHealth[p].healthOutput
          endpointLines == {k \in 1..Len(out) : \E j \in 1..Len(out[k]) : out[k][j] # " "}
          healthyLines == {k \in 1..Len(out) : \E j \in 1..Len(out[k]) :
                             out[k][j] = "is healthy"}
      IN /\ etcdHealth[p].totalEndpoints = Cardinality(endpointLines)
         /\ etcdHealth[p].healthyEndpoints = Cardinality(healthyLines)
         /\ etcdHealth[p].healthyEndpoints < etcdHealth[p].totalEndpoints
              => ~etcdHealth[p].healthy

\* two of three endpoint lines are healthy: healthy = false, 2 of 3
C26_Witness ==
  \E p \in Callers :
    /\ op[p] = "checkEtcdHealth" /\ pc[p] = "return"
    /\ Len(etcdHealth[p].healthOutput) = 3
    /\ etcdHealth[p].healthy = FALSE
    /\ etcdHealth[p].healthyEndpoints = 2
    /\ etcdHealth[p].totalEndpoints = 3

\* C27: on a health output that is empty or holds no line of a healthy
\* endpoint at all, checkEtcdHealth reports healthy = false.
C27_EmptyOutputUnhealthy ==
  \A p \in Callers :
    (/\ op[p] = "checkEtcdHealth" /\ pc[p] = "return"
     /\ \A k \in 1..Len(etcdHealth[p].healthOutput) :
          ~isHealthy(etcdHealth[p].healthOutput[k]))
      => etcdHealth[p].healthy = FALSE
\* C28: backupEtcd returns the backup path only after the snapshot was saved and
\* its status check succeeded; when the status check fails, as it does on a
\* malformed or empty snapshot, backupEtcd raises.
C28_BackupVerified ==
  [][\A p \in Callers : \A n \in Instances :
       (op[p] = "backupEtcd" /\ controlPlaneNode[p] = n) =>
         /\ (pc[p] = "return" /\ pc'[p] = "done")
              => log[p] = <<<<"snapshot save", n>>, <<"snapshot status", n>>>>
         /\ (pc[p] = "snapshotStatus" /\ pc'[p] # "snapshotStatus"
              /\ log'[p] # Append(log[p], <<"snapshot status", n>>))
              => pc'[p] = "failed"]_vars

\* the status check of a saved snapshot failed and backupEtcd raised
C28_Witness ==
  \E p \in Callers :
    op[p] = "backupEtcd" /\ pc[p] = "failed" /\ error[p] = "snapshot_status"

\* C29: restoreEtcd restores the snapshot on exactly one of the control-plane
\* nodes it listed, and only after the kubelet and etcd were stopped on every
\* one of them; the kubelet is started again, on all of them, only after the
\* restored data was swapped into place.
C29_RestoreOrder ==
  \A p \in Callers :
    op[p] = "restoreEtcd" =>
      LET L == log[p]
          at(command) == {k \in 1..Len(L) : L[k][1] = command}
          before(entry, k) == \E j \in 1..(k - 1) : L[j] = entry
      IN /\ Cardinality(at("snapshot restore")) <= 1
         /\ \A k \in at("snapshot restore") :
              /\ L[k][2] \in listed(p)
              /\ \A n \in listed(p) :
                   before(<<"stop kubelet", n>>, k) /\ before(<<"stop etcd", n>>, k)
         /\ \A k \in at("swap") : before(<<"snapshot restore", L[k][2]>>, k)
         /\ \A k \in at("start kubelet") : \E j \in at("swap") : j < k
         /\ pc[p] = "return" =>
              /\ Cardinality(at("snapshot restore")) = 1
              /\ \A n \in listed(p) : \E k \in at("start kubelet") : L[k][2] = n

\* C30: in an upgradeCluster call, etcd is restarted on a node only after the
\* call's backup of etcd was saved and verified; when the backup fails the call
\* is over, without a restart.
C30_BackupBeforeRestart ==
  [][\A p \in Callers :
       hist[p].upgradeCluster =>
         /\ \A k \in 1..Len(log'[p]) :
              log'[p][k][1] = "restart etcd" =>
                \E i, j \in 1..(k - 1) :
                  /\ i < j
                  /\ log'[p][i][1] = "snapshot save"
                  /\ log'[p][j] = <<"snapshot status", log'[p][i][2]>>
         /\ (op[p] = "backupEtcd" /\ pc'[p] = "failed")
              => \A k \in 1..Len(log[p]) : log[p][k][1] # "restart etcd"]_vars

\* etcd was restarted on two control-plane nodes
C30_Witness ==
  \E p \in Callers : \E k1, k2 \in 1..Len(log[p]) :
    /\ hist[p].upgradeCluster
    /\ log[p][k1][1] = "restart etcd" /\ log[p][k2][1] = "restart etcd"
    /\ log[p][k1][2] # log[p][k2][2]

\* C31: upgradeCluster takes the control-plane nodes one at a time: etcd is
\* restarted on a node only after, on every node restarted before it, the
\* endpoint health command has passed; at most one node is restarted and not
\* yet verified; a health command that fails ends the call.
C31_OneNodeAtATime ==
  [][\A p \in Callers :
       hist[p].upgradeCluster =>
         LET L == log'[p]
             restarts == {k \in 1..Len(L) : L[k][1] = "restart etcd"}
             verified == {k \in 1..Len(L) : L[k][1] = "endpoint health"}
         IN /\ \A k \in restarts : \A j \in restarts :
                 j < k => \E h \in verified : j < h /\ h < k /\ L[h][2] = L[j][2]
            /\ Cardinality(restarts) - Cardinality(verified) \in {0, 1}
            /\ (/\ op[p] = "upgradeCluster" /\ pc[p] = "upgrade"
                /\ upgrading(p) # NoInstance
                /\ tasks[p][upgrading(p)].pc = "health"
                /\ log'[p] # log[p]
                /\ log'[p] # Append(log[p], <<"endpoint health", upgrading(p)>>))
                 => pc'[p] = "failed"]_vars

\* the second node's etcd is restarted, the first node's health having passed
C31_Witness ==
  \E p \in Callers : \E j, h, k \in 1..Len(log[p]) :
    /\ hist[p].upgradeCluster
    /\ j < h /\ h < k
    /\ log[p][j][1] = "restart etcd"
    /\ log[p][h] = <<"endpoint health", log[p][j][2]>>
    /\ log[p][k][1] = "restart etcd" /\ log[p][k][2] # log[p][j][2]

\* C32: upgradeCluster raises, and does not return, whenever the health it
\* observed after the restarts is not fully healthy: an endpoint is not
\* healthy, or no endpoint was reported at all.
C32_UnhealthyUpgradeFails ==
  [][\A p \in Callers :
       (/\ op[p] = "upgradeCluster" /\ pc[p] = "verify"
        /\ \/ etcdHealth[p].totalEndpoints = 0
           \/ etcdHealth[p].healthyEndpoints < etcdHealth[p].totalEndpoints)
         => pc'[p] # "done"]_vars

\* C33: every provider primitive that waits (instance creation, reinstall,
\* start, stop, private-network assignment) gives up or returns: a call of one
\* of them that began comes to an end, whether or not the instance ever gets
\* to the state the call waits for.
C33_PollingEnds ==
  \A p \in Callers :
    [](op[p] \in Primitives => <>(pc[p] \in {"done", "failed"}))

C34_CommandsEnd ==
  \A p \in Callers :
    [](op[p] = "executeSSH" => <>(pc[p] \in {"done", "failed"}))

\* C35: deprovisionNode(clusterId, nodeId) clears the display name of the
\* instance, and stops it, only if the instance carries the marker
\* cluster=<clusterId> when the call resets it: an instance that is unclaimed or
\* claimed by another cluster keeps its display name and its run state.
C35_ReleasesOwnOnly ==
  [][\A p \in Callers :
       op[p] = "deprovisionNode" =>
         /\ (/\ pc[p] = "resetInstance"
             /\ displayName[nodeId[p]] # displayNameOf(nodeId[p], clusterId[p]))
              => displayName'[nodeId[p]] = displayName[nodeId[p]]
         /\ (pc[p] = "stopInstance" /\ ~hist[p].released)
              => status'[nodeId[p]] = status[nodeId[p]]]_vars

\* C36: when provisionNode ends with an error, the instance its last attempt
\* claimed carries neither the marker cluster=<clusterId> nor the assignment of
\* the tag cluster=<clusterId>.
C36_FailureLeavesNoClaim ==
  [][\A p \in Callers :
       (/\ op[p] = "provisionNode" /\ pc[p] # "failed" /\ pc'[p] = "failed"
        /\ instance[p].instanceId # NoInstance)
         => LET i == instance[p].instanceId
            IN /\ displayName'[i] # displayNameOf(i, clusterId[p])
               /\ <<clusterId[p], i>> \notin tagAssignments']_vars

\* C37: the display-name write that records the failure reason of instance i
\* has reached the directory when the release write that clears i's display
\* name is issued, and it lands on no display name that was cleared since.
C37_FailureWriteLandsFirst ==
  [][/\ \A p \in Callers :
          (op[p] = "provisionNode" /\ pc[p] = "resetInstance" /\ pc'[p] # pc[p])
            => \A w \in inflight : w.instanceId # instance[p].instanceId
     /\ \A w \in inflight \ inflight' : displayName[w.instanceId] # <<>>]_vars

\* C38: the provisioner deletes the tag cluster=<id> only when the assignment
\* it removed was the last one of the tag: when unassignTag deletes the tag, in
\* a call on an instance that no other call in progress works on, no other
\* instance holds an assignment of the tag.
C38_LastAssignmentOnly ==
  [][\A p \in Callers :
       (/\ pc[p] = "deleteTag" /\ clusterId[p] \in tags /\ clusterId[p] \notin tags'
        /\ \A q \in Callers \ {p} :
             nodeId[q] # nodeId[p] /\ instance[q].instanceId # nodeId[p])
         => \A a \in tagAssignments' : a[1] = clusterId[p] => a[2] = nodeId[p]]_vars

\* C39: the candidate scan of provisionNode modifies no instance but the one
\* the call goes on to claim: every other instance keeps its display name, its
\* installation (image and ssh keys) and its run state.
C39_RejectedUntouched ==
  [][\A p \in Callers :
       (op[p] = "provisionNode" /\ pc[p] = "ensureInstance" /\ pc'[p] # pc[p])
         => \A i \in Instances \ {instance'[p].instanceId} :
              /\ displayName'[i] = displayName[i]
              /\ sshKeys'[i] = sshKeys[i]
              /\ status'[i] = status[i]]_vars

====
